---- MODULE Spec2Model ----
(***************************************************************************)
(* A model of the RusTTD simulation engine: the tile-grid world and its   *)
(* per-tick update (src/src/world.rs), the market model                   *)
(* (src/src/economy.rs), the vehicle state machine and its pathfinding    *)
(* (src/src/vehicle.rs), the player ledger (src/src/player.rs), the       *)
(* command handlers of the game (src/src/game.rs) and persistence         *)
(* (src/src/save.rs).                                                     *)
(*                                                                         *)
(* Representation notes.                                                   *)
(*  - A HashMap<CargoType, u32> is a function CargoType -> Nat; an absent  *)
(*    key is the value 0 (the code reads absent keys as 0 and never acts   *)
(*    on a present key whose value is 0).  Where the code iterates a       *)
(*    HashMap and the order matters, the order is a nondeterministic       *)
(*    choice.                                                              *)
(*  - f32 quantities are exact rationals or fixed-point integers:          *)
(*    growth_rate is in hundredths of a percent, progress in thousandths,  *)
(*    price_multiplier is a pair <<numerator, denominator>>, prices are    *)
(*    in thousandths of a currency unit.                                   *)
(*  - u32 saturation (2^32 - 1) lies outside TLC's integers and outside    *)
(*    every value reachable within the bounds; saturating_add is +.        *)
(***************************************************************************)
EXTENDS Integers, Sequences, FiniteSets, TLC

VARIABLES world, economy, player, ui, pc, vi, panicked, savefile, ncmd,
          mutex, task

vars == <<world, economy, player, ui, pc, vi, panicked, savefile, ncmd,
          mutex, task>>

----------------------------------------------------------------------------
(* Bounds of the model *)

\* ticks a behaviour may run (game_time is a u32 in the code)
MaxTicks == 5

\* ticks a behaviour of more than FewCommands commands may run
ShortTicks == 2

\* ticks a behaviour of the world specification may run
MaxWorldTicks == 3

----------------------------------------------------------------------------
(* world.rs: enumerations *)

TerrainType == {"Grass", "Water", "Mountain", "Desert", "Forest"}

CargoType ==
    {"Passengers", "Mail", "Coal", "IronOre", "Steel", "Wood", "Oil", "Goods", "Food"}

IndustryType ==
    {"CoalMine", "IronOreMine", "SteelMill", "Factory", "Farm", "Sawmill", "OilRig",
     "Refinery"}

StationType == {"Train", "Road", "Airport", "Harbor"}

\* HashMap::new()
EmptyMap == [c \in CargoType |-> 0]

\* sum of the values of a HashMap<CargoType, u32>
RECURSIVE SumOver(_, _)
SumOver(m, ks) ==
    IF ks = {} THEN 0
    ELSE LET k == CHOOSE c \in ks : TRUE IN m[k] + SumOver(m, ks \ {k})

MapSum(m) == SumOver(m, CargoType)

\* u32::saturating_add; the u32 maximum is not reachable within the bounds
SaturatingAdd(a, b) == a + b

\* u32::saturating_sub
SaturatingSub(a, b) == IF a > b THEN a - b ELSE 0

Min(a, b) == IF a < b THEN a ELSE b

Max(a, b) == IF a > b THEN a ELSE b

----------------------------------------------------------------------------
(* world.rs: tiles and the grid *)

EmptyContent == [kind |-> "Empty"]

RoadContent == [kind |-> "Road"]

TrackContent(track) == [kind |-> "Track", track |-> track]

TownContent(name, population, growth_rate) ==
    [kind |-> "Town", name |-> name, population |-> population,
     growth_rate |-> growth_rate, cargo_demand |-> EmptyMap, cargo_supply |-> EmptyMap]

\* World::get_industry_cargo: <<cargo_input, cargo_output>> of an industry type
get_industry_cargo(industry_type) ==
    CASE industry_type = "CoalMine" -> << <<>>, <<"Coal">> >>
      [] industry_type = "IronOreMine" -> << <<>>, <<"IronOre">> >>
      [] industry_type = "SteelMill" -> << <<"Coal", "IronOre">>, <<"Steel">> >>
      [] industry_type = "Factory" -> << <<"Steel">>, <<"Goods">> >>
      [] industry_type = "Farm" -> << <<>>, <<"Food">> >>
      [] industry_type = "Sawmill" -> << <<>>, <<"Wood">> >>
      [] industry_type = "OilRig" -> << <<>>, <<"Oil">> >>
      [] industry_type = "Refinery" -> << <<"Oil">>, <<"Goods">> >>

IndustryContent(industry_type, production_rate) ==
    [kind |-> "Industry", industry_type |-> industry_type,
     production_rate |-> production_rate,
     cargo_input |-> get_industry_cargo(industry_type)[1],
     cargo_output |-> get_industry_cargo(industry_type)[2],
     stockpile |-> EmptyMap]

StationContent(name, station_type) ==
    [kind |-> "Station", name |-> name, station_type |-> station_type,
     cargo_waiting |-> EmptyMap, connections |-> <<>>]

Coords(width, height) == (0 .. width - 1) \X (0 .. height - 1)

\* World::get_tile returns Some exactly for these coordinates
InBounds(w, x, y) == x < w.width /\ y < w.height

\* World::get_tile, for coordinates that are in bounds
get_tile(w, x, y) == w.tiles[<<x, y>>]

\* a lookup that takes the column for the row
get_tile_transposed(w, x, y) ==
    IF <<y, x>> \in DOMAIN w.tiles
    THEN [some |-> TRUE, value |-> w.tiles[<<y, x>>]]
    ELSE [some |-> FALSE]

\* World::get_tile with its Option: tiles.get(y)?.get(x)
get_tile_option(w, x, y) ==
    IF <<x, y>> \in DOMAIN w.tiles
    THEN [some |-> TRUE, value |-> w.tiles[<<x, y>>]]
    ELSE [some |-> FALSE]

\* the content kind of a tile, "None" where get_tile returns None
ContentKind(w, x, y) ==
    IF InBounds(w, x, y) THEN get_tile(w, x, y).content.kind ELSE "None"

\* a write that puts a fresh tile in place of the old one
set_tile_fresh(w, x, y, content) ==
    IF InBounds(w, x, y)
    THEN [w EXCEPT !.tiles[<<x, y>>] =
             [terrain |-> "Grass", content |-> content, height |-> 0]]
    ELSE w

\* World::set_tile_content
set_tile_content(w, x, y, content) ==
    IF InBounds(w, x, y)
    THEN [w EXCEPT !.tiles[<<x, y>>].content = content]
    ELSE w

----------------------------------------------------------------------------
(* world.rs: World::new *)

\* the grid before generation: Grass, Empty, height 0 everywhere
BlankWorld(width, height) ==
    [width |-> width, height |-> height,
     tiles |-> [c \in Coords(width, height) |->
                   [terrain |-> "Grass", content |-> EmptyContent, height |-> 0]],
     towns |-> <<>>, industries |-> <<>>, stations |-> <<>>]

\* World::generate_terrain: the random draws are the functions terrain, heights
generate_terrain(w, terrain, heights) ==
    [w EXCEPT !.tiles = [c \in DOMAIN w.tiles |->
        [w.tiles[c] EXCEPT !.terrain = terrain[c], !.height = heights[c]]]]

town_names ==
    <<"Springfield", "Riverside", "Madison", "Georgetown", "Franklin",
      "Clinton", "Chester", "Marion", "Greenwood", "Fairview">>

\* World::generate_towns: draws[i] = [x, y, population, growth_rate] is the
\* random draw of attempt i (the code makes 5 attempts; i counts from 1 here)
RECURSIVE generate_towns(_, _, _)
generate_towns(w, draws, i) ==
    IF i > Len(draws) THEN w
    ELSE LET d == draws[i]
             t == w.tiles[<<d.x, d.y>>]
             placed ==
                 IF t.terrain \in {"Grass", "Forest"}
                 THEN [w EXCEPT
                         !.tiles[<<d.x, d.y>>].content =
                             TownContent(town_names[((i - 1) % Len(town_names)) + 1],
                                         d.population, d.growth_rate),
                         !.towns = Append(@, <<d.x, d.y>>)]
                 ELSE w
         IN generate_towns(placed, draws, i + 1)

\* World::generate_industries: draws[i] = [x, y, industry_type, production_rate]
RECURSIVE generate_industries(_, _, _)
generate_industries(w, draws, i) ==
    IF i > Len(draws) THEN w
    ELSE LET d == draws[i]
             t == w.tiles[<<d.x, d.y>>]
             placed ==
                 IF t.content.kind = "Empty"
                 THEN [w EXCEPT
                         !.tiles[<<d.x, d.y>>].content =
                             IndustryContent(d.industry_type, d.production_rate),
                         !.industries = Append(@, <<d.x, d.y>>)]
                 ELSE w
         IN generate_industries(placed, draws, i + 1)

\* World::new
WorldNew(width, height, terrain, heights, town_draws, industry_draws) ==
    generate_industries(
        generate_towns(
            generate_terrain(BlankWorld(width, height), terrain, heights),
            town_draws, 1),
        industry_draws, 1)

----------------------------------------------------------------------------
(* world.rs: World::update *)

\* f32 -> u32 of population * (1.0 + growth_rate / 100.0); growth_rate is in
\* hundredths of a percent
GrowPopulation(population, growth_rate) ==
    (population * (10000 + growth_rate)) \div 10000

\* the body of the towns loop of World::update, for one entry of world.towns
UpdateTown(town) ==
    LET population == GrowPopulation(town.population, town.growth_rate)
        base_demand == population \div 100
    IN [town EXCEPT
          !.population = population,
          !.cargo_demand = [@ EXCEPT
              !["Food"] = SaturatingAdd(@, base_demand),
              !["Goods"] = SaturatingAdd(@, base_demand \div 2),
              !["Mail"] = SaturatingAdd(@, base_demand \div 4)],
          !.cargo_supply = [@ EXCEPT
              !["Passengers"] = SaturatingAdd(@, population \div 200)]]

\* the towns loop of World::update, over the list world.towns
RECURSIVE UpdateTowns(_, _)
UpdateTowns(w, i) ==
    IF i > Len(w.towns) THEN w
    ELSE LET c == w.towns[i]
             next ==
                 IF InBounds(w, c[1], c[2]) /\ w.tiles[c].content.kind = "Town"
                 THEN [w EXCEPT !.tiles[c].content = UpdateTown(@)]
                 ELSE w
         IN UpdateTowns(next, i + 1)

\* World::update_industry_production_static
RECURSIVE ProduceOutputs(_, _, _)
ProduceOutputs(stockpile, outputs, rate) ==
    IF outputs = <<>> THEN stockpile
    ELSE ProduceOutputs([stockpile EXCEPT ![Head(outputs)] = @ + rate],
                        Tail(outputs), rate)

\* the mutation of update_industry_production_static: every industry produces
ProduceRegardless(industry) ==
    [industry EXCEPT
        !.stockpile = ProduceOutputs(@, industry.cargo_output,
                                     industry.production_rate)]

update_industry_production_static(industry) ==
    IF industry.cargo_input = <<>>
    THEN [industry EXCEPT
            !.stockpile = ProduceOutputs(@, industry.cargo_output,
                                         industry.production_rate)]
    ELSE industry

\* the industries loop of World::update
RECURSIVE UpdateIndustries(_, _)
UpdateIndustries(w, i) ==
    IF i > Len(w.industries) THEN w
    ELSE LET c == w.industries[i]
             next ==
                 IF InBounds(w, c[1], c[2]) /\ w.tiles[c].content.kind = "Industry"
                 THEN [w EXCEPT
                         !.tiles[c].content = update_industry_production_static(@)]
                 ELSE w
         IN UpdateIndustries(next, i + 1)

\* the tiles of the window x-r ..= min(x+r, width-1), y-r ..= min(y+r, height-1)
Window(w, x, y, r) ==
    { c \in DOMAIN w.tiles :
        /\ c[1] >= SaturatingSub(x, r) /\ c[1] <= Min(x + r, w.width - 1)
        /\ c[2] >= SaturatingSub(y, r) /\ c[2] <= Min(y + r, w.height - 1) }

\* World::transfer_cargo_to_stations, for the industry entry at (x, y)
TransferCargoOf(w, x, y) ==
    LET here == <<x, y>>
        isIndustry == InBounds(w, x, y) /\ w.tiles[here].content.kind = "Industry"
        cargo_to_transfer ==
            [k \in CargoType |->
                IF isIndustry /\ w.tiles[here].content.stockpile[k] > 0
                THEN Max(w.tiles[here].content.stockpile[k] \div 4, 1)
                ELSE 0]
        near == Window(w, x, y, 3)
        delivered ==
            [w EXCEPT !.tiles = [c \in DOMAIN w.tiles |->
                IF c \in near /\ w.tiles[c].content.kind = "Station"
                THEN [w.tiles[c] EXCEPT !.content.cargo_waiting =
                        [k \in CargoType |-> @[k] + cargo_to_transfer[k]]]
                ELSE w.tiles[c]]]
    IN IF isIndustry
       THEN [delivered EXCEPT !.tiles[here].content.stockpile =
                [k \in CargoType |-> SaturatingSub(@[k], cargo_to_transfer[k])]]
       ELSE delivered

RECURSIVE transfer_cargo_to_stations(_, _)
transfer_cargo_to_stations(w, i) ==
    IF i > Len(w.industries) THEN w
    ELSE transfer_cargo_to_stations(
             TransferCargoOf(w, w.industries[i][1], w.industries[i][2]), i + 1)

\* the station that receives passengers in column x of the window: the first
\* station of the inner loop over y (the code's break leaves the inner loop only)
FirstStationInColumn(w, x, ylo, yhi) ==
    LET ys == { y \in ylo .. yhi : w.tiles[<<x, y>>].content.kind = "Station" }
    IN IF ys = {} THEN {}
       ELSE {<<x, CHOOSE y \in ys : \A z \in ys : y <= z>>}

\* World::transfer_passengers_to_stations, for the town entry at (x, y)
TransferPassengersOf(w, x, y) ==
    LET here == <<x, y>>
        isTown == InBounds(w, x, y) /\ w.tiles[here].content.kind = "Town"
        passengers_to_transfer ==
            IF isTown THEN w.tiles[here].content.cargo_supply["Passengers"] \div 2
            ELSE 0
        xlo == SaturatingSub(x, 2)
        xhi == Min(x + 2, w.width - 1)
        ylo == SaturatingSub(y, 2)
        yhi == Min(y + 2, w.height - 1)
        receivers ==
            UNION { FirstStationInColumn(w, sx, ylo, yhi) : sx \in xlo .. xhi }
        delivered ==
            [w EXCEPT !.tiles = [c \in DOMAIN w.tiles |->
                IF c \in receivers
                THEN [w.tiles[c] EXCEPT !.content.cargo_waiting["Passengers"] =
                        @ + passengers_to_transfer]
                ELSE w.tiles[c]]]
    IN IF passengers_to_transfer > 0
       THEN [delivered EXCEPT !.tiles[here].content.cargo_supply["Passengers"] =
                SaturatingSub(@, passengers_to_transfer)]
       ELSE w

RECURSIVE transfer_passengers_to_stations(_, _)
transfer_passengers_to_stations(w, i) ==
    IF i > Len(w.towns) THEN w
    ELSE transfer_passengers_to_stations(
             TransferPassengersOf(w, w.towns[i][1], w.towns[i][2]), i + 1)

\* the two loops of World::update that precede diffusion: growth and production
WorldGrowAndProduce(w) == UpdateIndustries(UpdateTowns(w, 1), 1)

\* World::update
WorldUpdate(w) ==
    transfer_passengers_to_stations(
        transfer_cargo_to_stations(WorldGrowAndProduce(w), 1), 1)

----------------------------------------------------------------------------
(* vehicle.rs: vehicle types (the values are those of                      *)
(* Game::create_vehicle_from_type)                                          *)

\* the configuration with breakdowns
BREAKDOWNS_SWITCHED_ON == TRUE

\* vehicle.rs: const BREAKDOWNS_ENABLED
BREAKDOWNS_ENABLED == FALSE

\* Game::create_vehicle_from_type
create_vehicle_from_type(purchase_type) ==
    CASE purchase_type = "Train" ->
            [class |-> "Train",
             engine |-> [kind |-> "Steam", power |-> 500, reliability |-> 75],
             cars |-> << [kind |-> "Passenger", capacity |-> 40],
                         [kind |-> "Freight", capacity |-> 30] >>]
      [] purchase_type = "Bus" ->
            [class |-> "Road", truck_type |-> [kind |-> "Bus", capacity |-> 40]]
      [] purchase_type = "SmallTruck" ->
            [class |-> "Road", truck_type |-> [kind |-> "SmallTruck", capacity |-> 20]]
      [] purchase_type = "LargeTruck" ->
            [class |-> "Road", truck_type |-> [kind |-> "LargeTruck", capacity |-> 60]]
      [] purchase_type = "Ship" ->
            [class |-> "Ship", ship_type |-> [kind |-> "CargoShip", capacity |-> 200]]
      [] purchase_type = "SmallPlane" ->
            [class |-> "Aircraft",
             plane_type |-> [kind |-> "SmallPlane", capacity |-> 50, range |-> 1000]]
      [] purchase_type = "LargePlane" ->
            [class |-> "Aircraft",
             plane_type |-> [kind |-> "LargePlane", capacity |-> 200, range |-> 5000]]
      [] OTHER ->
            [class |-> "Road", truck_type |-> [kind |-> "Bus", capacity |-> 40]]

RECURSIVE SumCapacity(_)
SumCapacity(cars) ==
    IF cars = <<>> THEN 0 ELSE Head(cars).capacity + SumCapacity(Tail(cars))

\* Vehicle::get_capacity
get_capacity(v) ==
    CASE v.vehicle_type.class = "Train" -> SumCapacity(v.vehicle_type.cars)
      [] v.vehicle_type.class = "Road" -> v.vehicle_type.truck_type.capacity
      [] v.vehicle_type.class = "Ship" -> v.vehicle_type.ship_type.capacity
      [] v.vehicle_type.class = "Aircraft" -> v.vehicle_type.plane_type.capacity

\* Vehicle::get_vehicle_stats: <<speed, reliability>>
get_vehicle_stats(vehicle_type) ==
    CASE vehicle_type.class = "Train" ->
            << (CASE vehicle_type.engine.kind = "Steam" -> 60
                  [] vehicle_type.engine.kind = "Diesel" -> 80
                  [] vehicle_type.engine.kind = "Electric" -> 100),
               vehicle_type.engine.reliability >>
      [] vehicle_type.class = "Road" ->
            (CASE vehicle_type.truck_type.kind = "SmallTruck" -> <<90, 85>>
               [] vehicle_type.truck_type.kind = "LargeTruck" -> <<70, 80>>
               [] vehicle_type.truck_type.kind = "Bus" -> <<85, 88>>)
      [] vehicle_type.class = "Ship" -> <<40, 90>>
      [] vehicle_type.class = "Aircraft" ->
            (CASE vehicle_type.plane_type.kind = "SmallPlane" -> <<300, 75>>
               [] vehicle_type.plane_type.kind = "LargePlane" -> <<250, 85>>)

\* Vehicle::get_purchase_cost
get_purchase_cost(vehicle_type) ==
    CASE vehicle_type.class = "Train" ->
            (CASE vehicle_type.engine.kind = "Steam" -> vehicle_type.engine.power * 100
               [] vehicle_type.engine.kind = "Diesel" -> vehicle_type.engine.power * 150
               [] vehicle_type.engine.kind = "Electric" -> vehicle_type.engine.power * 200)
            + (LET RECURSIVE CarCost(_)
                   CarCost(cars) ==
                       IF cars = <<>> THEN 0
                       ELSE (CASE Head(cars).kind = "Passenger" -> 50000
                               [] Head(cars).kind = "Freight" -> 30000
                               [] Head(cars).kind = "Mail" -> 40000)
                            + CarCost(Tail(cars))
               IN CarCost(vehicle_type.cars))
      [] vehicle_type.class = "Road" ->
            (CASE vehicle_type.truck_type.kind = "SmallTruck" -> 75000
               [] vehicle_type.truck_type.kind = "LargeTruck" -> 150000
               [] vehicle_type.truck_type.kind = "Bus" -> 120000)
      [] vehicle_type.class = "Ship" ->
            (CASE vehicle_type.ship_type.kind = "CargoShip" -> 500000
               [] vehicle_type.ship_type.kind = "PassengerShip" -> 800000)
      [] vehicle_type.class = "Aircraft" ->
            (CASE vehicle_type.plane_type.kind = "SmallPlane" -> 2000000
               [] vehicle_type.plane_type.kind = "LargePlane" -> 10000000)

\* VehicleState::Idle, Loading, Unloading, Broken
StateOf(tag) == [tag |-> tag]

\* VehicleState::Moving; progress is in thousandths
Moving(from, to, progress) ==
    [tag |-> "Moving", from |-> from, to |-> to, progress |-> progress]

\* Vehicle::new
VehicleNew(id, vehicle_type, x, y) ==
    [id |-> id, vehicle_type |-> vehicle_type, x |-> x, y |-> y,
     state |-> StateOf("Idle"), cargo |-> EmptyMap, route |-> <<>>,
     route_index |-> 0, current_path |-> <<>>, path_index |-> 0, age |-> 0,
     reliability |-> get_vehicle_stats(vehicle_type)[2],
     speed |-> get_vehicle_stats(vehicle_type)[1],
     last_service |-> 0, profit |-> 0, on_time_deliveries |-> 0,
     total_deliveries |-> 0]

\* Vehicle::assign_route
assign_route(v, stations) == [v EXCEPT !.route = stations, !.route_index = 0]

\* Vehicle::get_running_costs: (base * (1 + age/365 * 0.1) * (2 - reliability/100))
\* as u32
get_running_costs(v) ==
    LET base_cost ==
            CASE v.vehicle_type.class = "Train" -> 1000
              [] v.vehicle_type.class = "Road" -> 200
              [] v.vehicle_type.class = "Ship" -> 800
              [] v.vehicle_type.class = "Aircraft" -> 3000
    IN (base_cost * (3650 + v.age) * (200 - v.reliability)) \div 365000

\* Vehicle::has_delivered_cargo
has_delivered_cargo(v) == v.total_deliveries > 0

\* Vehicle::is_on_time: on_time / total > 0.8
is_on_time(v) ==
    IF v.total_deliveries = 0 THEN TRUE
    ELSE 10 * v.on_time_deliveries > 8 * v.total_deliveries

\* the integer square root
RECURSIVE ISqrtFrom(_, _)
ISqrtFrom(n, r) == IF (r + 1) * (r + 1) > n THEN r ELSE ISqrtFrom(n, r + 1)

\* Vehicle::calculate_route_distance, in hundredths, each leg rounded down
RECURSIVE RouteDistance100(_, _)
RouteDistance100(route, i) ==
    IF i >= Len(route) THEN 0
    ELSE LET dx == route[i + 1][1] - route[i][1]
             dy == route[i + 1][2] - route[i][2]
         IN ISqrtFrom((dx * dx + dy * dy) * 10000, 0) + RouteDistance100(route, i + 1)

\* Vehicle::calculate_delivery_profit
calculate_delivery_profit(v) ==
    MapSum(v.cargo) * 10
    + (IF Len(v.route) > 1 THEN (RouteDistance100(v.route, 1) \div 100) * 5 ELSE 0)

----------------------------------------------------------------------------
(* vehicle.rs: pathfinding *)

\* Option<T>
None == [some |-> FALSE]

Some(value) == [some |-> TRUE, value |-> value]

\* the 4 directions in the order of the code, without the positions that
\* checked_add_signed rejects (a negative coordinate)
Adjacent(pos) ==
    LET all == << <<pos[1] - 1, pos[2]>>, <<pos[1] + 1, pos[2]>>,
                  <<pos[1], pos[2] - 1>>, <<pos[1], pos[2] + 1>> >>
        Valid(c) == c[1] >= 0 /\ c[2] >= 0
    IN SelectSeq(all, Valid)

\* the mutation of get_train_neighbors: every adjacent tile of the grid
\* carries a train
get_train_neighbors_any(w, pos) ==
    LET Usable(c) == InBounds(w, c[1], c[2])
    IN SelectSeq(Adjacent(pos), Usable)

\* Vehicle::get_train_neighbors
get_train_neighbors(w, pos) ==
    LET Usable(c) == ContentKind(w, c[1], c[2]) \in {"Track", "Station"}
    IN SelectSeq(Adjacent(pos), Usable)

\* a neighbor test that keeps road vehicles off water only
get_road_neighbors_dry(w, pos) ==
    LET Usable(c) ==
            /\ ContentKind(w, c[1], c[2]) \in {"Road", "Station", "Empty"}
            /\ get_tile(w, c[1], c[2]).terrain # "Water"
    IN SelectSeq(Adjacent(pos), Usable)

\* Vehicle::get_road_neighbors
get_road_neighbors(w, pos) ==
    LET Usable(c) ==
            /\ ContentKind(w, c[1], c[2]) \in {"Road", "Station", "Empty"}
            /\ get_tile(w, c[1], c[2]).terrain \notin {"Water", "Mountain"}
    IN SelectSeq(Adjacent(pos), Usable)

SeqContains(s, e) == \E i \in 1 .. Len(s) : s[i] = e

\* the path reconstruction of both searches: walk came_from back from the goal,
\* push start, reverse
RECURSIVE WalkBack(_, _, _)
WalkBack(came_from, pos, acc) ==
    IF pos \in DOMAIN came_from
    THEN WalkBack(came_from, came_from[pos], <<pos>> \o acc)
    ELSE acc

ReconstructPath(came_from, goal, start) == <<start>> \o WalkBack(came_from, goal, <<>>)

\* a neighbor loop that puts a new tile at the front of the queue
RECURSIVE TrainRelaxDepthFirst(_, _, _, _)
TrainRelaxDepthFirst(nbrs, current, visited, st) ==
    IF nbrs = <<>> THEN st
    ELSE LET n == Head(nbrs)
             tentative_g_score == st.g_score[current] + 1
             better == n \notin DOMAIN st.g_score \/ tentative_g_score < st.g_score[n]
             next ==
                 IF n \in visited \/ ~better THEN st
                 ELSE [open_set |-> IF SeqContains(st.open_set, n) THEN st.open_set
                                    ELSE <<n>> \o st.open_set,
                       came_from |-> (n :> current) @@ st.came_from,
                       g_score |-> (n :> tentative_g_score) @@ st.g_score]
         IN TrainRelaxDepthFirst(Tail(nbrs), current, visited, next)

\* the neighbor loop of find_train_path; st = [open_set, came_from, g_score]
RECURSIVE TrainRelax(_, _, _, _)
TrainRelax(nbrs, current, visited, st) ==
    IF nbrs = <<>> THEN st
    ELSE LET n == Head(nbrs)
             tentative_g_score == st.g_score[current] + 1
             better == n \notin DOMAIN st.g_score \/ tentative_g_score < st.g_score[n]
             next ==
                 IF n \in visited \/ ~better THEN st
                 ELSE [open_set |-> IF SeqContains(st.open_set, n) THEN st.open_set
                                    ELSE Append(st.open_set, n),
                       came_from |-> (n :> current) @@ st.came_from,
                       g_score |-> (n :> tentative_g_score) @@ st.g_score]
         IN TrainRelax(Tail(nbrs), current, visited, next)

\* the while loop of find_train_path
RECURSIVE TrainSearch(_, _, _, _, _)
TrainSearch(w, start, goal, visited, st) ==
    IF st.open_set = <<>> THEN None
    ELSE LET current == Head(st.open_set)
             popped == [st EXCEPT !.open_set = Tail(@)]
         IN IF current = goal
            THEN Some(ReconstructPath(st.came_from, current, start))
            ELSE IF current \in visited
            THEN TrainSearch(w, start, goal, visited, popped)
            ELSE TrainSearch(w, start, goal, visited \cup {current},
                     TrainRelax(get_train_neighbors(w, current), current,
                                visited \cup {current}, popped))

\* Vehicle::find_train_path
find_train_path(w, start, goal) ==
    TrainSearch(w, start, goal, {},
                [open_set |-> <<start>>, came_from |-> <<>>,
                 g_score |-> (start :> 0)])

\* the neighbor loop of find_road_path; st = [open_set, came_from]
RECURSIVE RoadRelax(_, _, _, _)
RoadRelax(nbrs, current, visited, st) ==
    IF nbrs = <<>> THEN st
    ELSE LET n == Head(nbrs)
             next ==
                 IF n \notin visited /\ n \notin DOMAIN st.came_from
                 THEN [open_set |-> Append(st.open_set, n),
                       came_from |-> (n :> current) @@ st.came_from]
                 ELSE st
         IN RoadRelax(Tail(nbrs), current, visited, next)

\* the while loop of find_road_path
RECURSIVE RoadSearch(_, _, _, _, _)
RoadSearch(w, start, goal, visited, st) ==
    IF st.open_set = <<>> THEN None
    ELSE LET current == Head(st.open_set)
             popped == [st EXCEPT !.open_set = Tail(@)]
         IN IF current = goal
            THEN Some(ReconstructPath(st.came_from, current, start))
            ELSE IF current \in visited
            THEN RoadSearch(w, start, goal, visited, popped)
            ELSE RoadSearch(w, start, goal, visited \cup {current},
                     RoadRelax(get_road_neighbors(w, current), current,
                               visited \cup {current}, popped))

\* Vehicle::find_road_path
find_road_path(w, start, goal) ==
    RoadSearch(w, start, goal, {}, [open_set |-> <<start>>, came_from |-> <<>>])

\* Vehicle::find_path_to_station
find_path_to_station(v, w, target) ==
    CASE v.vehicle_type.class = "Train" -> find_train_path(w, <<v.x, v.y>>, target)
      [] v.vehicle_type.class = "Road" -> find_road_path(w, <<v.x, v.y>>, target)
      [] OTHER -> Some(<<target>>)

----------------------------------------------------------------------------
(* vehicle.rs: Vehicle::update.  An update has a set of outcomes            *)
(* [v, w, panic]: the vehicle and the world after it, and whether it ended  *)
(* in a panic (the fields then hold what was written before the panic).     *)

Outcome(v, w, panic) == [v |-> v, w |-> w, panic |-> panic]

\* Vehicle::start_moving_to_next_station
start_moving_to_next_station(v, w) ==
    IF v.route_index < Len(v.route)
    THEN LET next_station == v.route[v.route_index + 1]
             found == find_path_to_station(v, w, next_station)
         IN IF found.some
            THEN IF Len(found.value) > 1
                 THEN [v EXCEPT !.current_path = found.value,
                                !.path_index = 1,
                                !.state = Moving(<<v.x, v.y>>, found.value[2], 0)]
                 ELSE [v EXCEPT !.state = StateOf("Loading")]
            ELSE [v EXCEPT !.state = StateOf("Idle")]
    ELSE v

\* the mutation of ToLoad: the whole amount is taken
ToLoadAll(amount, remaining_capacity) == amount

\* the amount of one kind the loading loop takes
ToLoad(amount, remaining_capacity) == Min(amount, remaining_capacity)

\* the mutation of RemoveLoaded: the station keeps what was loaded
RemoveNothing(waiting_amount, amount) == waiting_amount

\* the second loop of load_cargo_at_station: what is left of a kind at the
\* station once amount of it was loaded
RemoveLoaded(waiting_amount, amount) == SaturatingSub(waiting_amount, amount)

\* the loading loop of load_cargo_at_station: the kinds of the station's map
\* are visited in any order; the results are pairs <<cargo, cargo_waiting>>
RECURSIVE LoadLoop(_, _, _, _)
LoadLoop(cargo, waiting, remaining_capacity, kinds) ==
    IF kinds = {} \/ remaining_capacity = 0 THEN {<<cargo, waiting>>}
    ELSE UNION { LET to_load == ToLoad(waiting[k], remaining_capacity)
                 IN LoadLoop([cargo EXCEPT ![k] = @ + to_load],
                             [waiting EXCEPT ![k] = RemoveLoaded(@, to_load)],
                             remaining_capacity - to_load, kinds \ {k})
                 : k \in kinds }

\* Vehicle::load_cargo_at_station: the set of results [v, w]
load_cargo_at_station(v, w) ==
    LET available_capacity == get_capacity(v) - MapSum(v.cargo)
        here == <<v.x, v.y>>
    IN IF available_capacity = 0 \/ ContentKind(w, v.x, v.y) # "Station"
       THEN {[v |-> v, w |-> w]}
       ELSE LET waiting == w.tiles[here].content.cargo_waiting
                kinds == {k \in CargoType : waiting[k] > 0}
            IN { [v |-> [v EXCEPT !.cargo = r[1]],
                  w |-> [w EXCEPT !.tiles[here].content.cargo_waiting = r[2]]]
                 : r \in LoadLoop(v.cargo, waiting, available_capacity, kinds) }

\* the number of offsets (dx, dy) in -2..2 x -2..2 that the clamping of
\* unload_cargo_at_station maps to the tile c
Visits(v, w, c) ==
    LET Clamp(a, hi) == Min(Max(a, 0), hi)
    IN Cardinality({ d \in (-2 .. 2) \X (-2 .. 2) :
           /\ Clamp(v.x + d[1], w.width - 1) = c[1]
           /\ Clamp(v.y + d[2], w.height - 1) = c[2] })

\* Vehicle::unload_cargo_at_station: the set of results [v, w]; the draw of
\* rand::random::<f32>() > 0.2 is the choice of on_time
unload_cargo_at_station(v, w) ==
    LET delivered_cargo == v.cargo
        emptied == [v EXCEPT !.cargo = EmptyMap]
        towns == { c \in DOMAIN w.tiles :
                     w.tiles[c].content.kind = "Town" /\ Visits(v, w, c) > 0 }
        total_delivered ==
            MapSum([k \in CargoType |->
                delivered_cargo[k] * Cardinality({ d \in (-2 .. 2) \X (-2 .. 2) :
                    <<Min(Max(v.x + d[1], 0), w.width - 1),
                      Min(Max(v.y + d[2], 0), w.height - 1)>> \in towns })])
        w2 == [w EXCEPT !.tiles = [c \in DOMAIN w.tiles |->
                  IF c \in towns
                  THEN [w.tiles[c] EXCEPT !.content.cargo_demand =
                          [k \in CargoType |->
                              SaturatingSub(@[k], Visits(v, w, c) * delivered_cargo[k])]]
                  ELSE w.tiles[c]]]
    IN IF MapSum(delivered_cargo) = 0 THEN {[v |-> emptied, w |-> w]}
       ELSE IF total_delivered = 0 THEN {[v |-> emptied, w |-> w2]}
       ELSE { [v |-> [emptied EXCEPT
                        !.total_deliveries = @ + 1,
                        !.on_time_deliveries = IF on_time THEN @ + 1 ELSE @,
                        !.profit = @ + total_delivered * 50],
               w |-> w2] : on_time \in BOOLEAN }

\* the Moving arm of Vehicle::update.  `current_path.len() - 1` is a usize
\* subtraction: on an empty path it panics where overflow checks are compiled
\* in, and wraps otherwise, after which current_path[path_index] is out of
\* bounds and panics.  Both builds are outcomes.
UpdateMoving(v, w) ==
    LET progress == v.state.progress + v.speed
        advanced == [v EXCEPT !.state.progress = progress]
        arrived == [advanced EXCEPT !.x = v.state.to[1], !.y = v.state.to[2]]
    IN IF progress < 1000 THEN {Outcome(advanced, w, FALSE)}
       ELSE IF Len(v.current_path) = 0
       THEN { Outcome(arrived, w, TRUE),
              Outcome([arrived EXCEPT !.path_index = @ + 1, !.state.progress = 0],
                      w, TRUE) }
       ELSE IF v.path_index >= Len(v.current_path) - 1
       THEN {Outcome([arrived EXCEPT !.state = StateOf("Loading"),
                                     !.current_path = <<>>,
                                     !.path_index = 0], w, FALSE)}
       ELSE {Outcome([arrived EXCEPT
                        !.path_index = @ + 1,
                        !.state.progress = 0,
                        !.state.to = v.current_path[v.path_index + 2]], w, FALSE)}

\* a Loading arm that advances route_index without the modulo
UpdateLoadingNoWrap(v, w) ==
    { Outcome([r.v EXCEPT !.state = StateOf("Idle"), !.route_index = @ + 1],
              r.w, Len(r.v.route) = 0)
      : r \in load_cargo_at_station(v, w) }

\* the Loading arm of Vehicle::update; `% self.route.len()` panics on an
\* empty route
UpdateLoading(v, w) ==
    { IF Len(r.v.route) = 0
      THEN Outcome([r.v EXCEPT !.state = StateOf("Idle")], r.w, TRUE)
      ELSE Outcome([r.v EXCEPT !.state = StateOf("Idle"),
                               !.route_index = (@ + 1) % Len(r.v.route)],
                   r.w, FALSE)
      : r \in load_cargo_at_station(v, w) }

\* the Broken arm of Vehicle::update; the draw of rand::random::<u8>() < 10
\* is the choice of repaired
UpdateBroken(v, w) ==
    { IF repaired
      THEN Outcome([v EXCEPT !.state = StateOf("Idle"),
                             !.last_service = v.age,
                             !.reliability = Min(@ + 20, 100)], w, FALSE)
      ELSE Outcome(v, w, FALSE) : repaired \in BOOLEAN }

\* the mutation of UpdateIdle: an idle vehicle departs whatever its route
UpdateIdleAlways(v, w) == {Outcome([v EXCEPT !.state = StateOf("Loading")], w, FALSE)}

\* the Idle arm of Vehicle::update
UpdateIdle(v, w) ==
    {Outcome(IF Len(v.route) > 0 THEN start_moving_to_next_station(v, w) ELSE v,
             w, FALSE)}

\* the match on self.state of Vehicle::update
UpdateByState(v, w) ==
    CASE v.state.tag = "Idle" -> UpdateIdle(v, w)
      [] v.state.tag = "Moving" -> UpdateMoving(v, w)
      [] v.state.tag = "Loading" -> UpdateLoading(v, w)
      [] v.state.tag = "Unloading" ->
            { Outcome([r.v EXCEPT !.state = StateOf("Idle")], r.w, FALSE)
              : r \in unload_cargo_at_station(v, w) }
      [] v.state.tag = "Broken" -> UpdateBroken(v, w)

\* Vehicle::update
VehicleUpdate(v, w) ==
    LET aged == [v EXCEPT
                   !.age = @ + 1,
                   !.reliability = IF (v.age + 1) % 365 = 0
                                   THEN SaturatingSub(@, 5) ELSE @]
    IN IF BREAKDOWNS_ENABLED /\ aged.age - aged.last_service > 180
       THEN {Outcome([aged EXCEPT !.state = StateOf("Broken")], w, FALSE)}
            \cup UpdateByState(aged, w)
       ELSE UpdateByState(aged, w)

----------------------------------------------------------------------------
(* economy.rs.  Prices are in thousandths of a currency unit and a product  *)
(* is rounded down; a price_multiplier is the fraction <<num, den>>.        *)

\* the initial supply and demand of every kind in Economy::new
InitialSupplyDemand == 1000

\* Economy::new
EconomyNew ==
    [cargo_prices |->
        [c \in CargoType |->
            CASE c = "Passengers" -> 5000 [] c = "Mail" -> 8000
              [] c = "Coal" -> 3000 [] c = "IronOre" -> 4000
              [] c = "Steel" -> 12000 [] c = "Wood" -> 6000
              [] c = "Oil" -> 8000 [] c = "Goods" -> 15000
              [] c = "Food" -> 7000],
     supply_demand |->
        [c \in CargoType |->
            [supply |-> InitialSupplyDemand, demand |-> InitialSupplyDemand,
             price_multiplier |-> <<1, 1>>]],
     inflation_rate |-> 2,
     economic_state |-> "Stable",
     month |-> 0]

\* Economy::update_monthly_economics
update_monthly_economics(e) ==
    [e EXCEPT
       !.cargo_prices = [c \in CargoType |-> (@[c] * (100 + e.inflation_rate)) \div 100],
       !.supply_demand = [c \in CargoType |->
           [@[c] EXCEPT !.demand =
               CASE e.economic_state = "Boom" -> (@ * 11) \div 10
                 [] e.economic_state = "Recession" -> (@ * 9) \div 10
                 [] OTHER -> @]]]

\* (population_factor * per_thousand) as u32 of process_town_demand_supply,
\* population_factor = max(population / 1000, 0.1)
TownShare(population, per_thousand) == (Max(population, 100) * per_thousand) \div 1000

\* Economy::process_town_demand_supply: what one town adds to new_demand
TownDemand(town, c) ==
    CASE c = "Passengers" -> TownShare(town.population, 50)
      [] c = "Mail" -> TownShare(town.population, 20)
      [] c = "Goods" -> TownShare(town.population, 30)
      [] c = "Food" -> TownShare(town.population, 25)
      [] OTHER -> 0

\* Economy::process_town_demand_supply: what one town adds to new_supply
TownSupply(town, c) ==
    CASE c = "Passengers" -> TownShare(town.population, 40)
      [] c = "Mail" -> TownShare(town.population, 15)
      [] OTHER -> 0

\* Economy::process_industry_supply: what one industry adds to new_supply
IndustrySupply(industry, c) ==
    IF SeqContains(industry.cargo_output, c) THEN industry.production_rate ELSE 0

TilesOfKind(w, kind) == { c \in DOMAIN w.tiles : w.tiles[c].content.kind = kind }

\* Economy::update_supply_demand: the scan of all tiles; a kind that no town
\* or industry contributes to keeps its supply (demand)
update_supply_demand(e, w) ==
    LET towns == TilesOfKind(w, "Town")
        industries == TilesOfKind(w, "Industry")
        supplied == { c \in CargoType :
                        \/ towns # {} /\ c \in {"Passengers", "Mail"}
                        \/ \E i \in industries :
                              SeqContains(w.tiles[i].content.cargo_output, c) }
        demanded == { c \in CargoType :
                        towns # {} /\ c \in {"Passengers", "Mail", "Goods", "Food"} }
        new_supply(c) ==
            SumOver([t \in towns |-> TownSupply(w.tiles[t].content, c)], towns)
            + SumOver([i \in industries |-> IndustrySupply(w.tiles[i].content, c)],
                      industries)
        new_demand(c) ==
            SumOver([t \in towns |-> TownDemand(w.tiles[t].content, c)], towns)
    IN [e EXCEPT !.supply_demand = [c \in CargoType |->
           [@[c] EXCEPT
              !.supply = IF c \in supplied THEN new_supply(c) ELSE @,
              !.demand = IF c \in demanded THEN new_demand(c) ELSE @]]]

\* the mutation of PriceMultiplier: the ratio is not clamped
PriceMultiplierUnclamped(supply, demand) ==
    IF supply > 0 THEN <<demand, supply>> ELSE <<2, 1>>

\* the price multiplier update_cargo_prices computes from supply and demand:
\* the ratio demand / supply (2.0 when supply is 0) clamped to [0.5, 1.5]
PriceMultiplier(supply, demand) ==
    LET ratio == IF supply > 0 THEN <<demand, supply>> ELSE <<2, 1>>
    IN IF 2 * ratio[1] > 3 * ratio[2] THEN <<3, 2>>
       ELSE IF 2 * ratio[1] < ratio[2] THEN <<1, 2>>
       ELSE ratio

\* Economy::update_cargo_prices
update_cargo_prices(e) ==
    LET sd == [c \in CargoType |->
                 [e.supply_demand[c] EXCEPT !.price_multiplier =
                     PriceMultiplier(e.supply_demand[c].supply,
                                     e.supply_demand[c].demand)]]
    IN [e EXCEPT
          !.supply_demand = sd,
          !.cargo_prices = [c \in CargoType |->
              (@[c] * sd[c].price_multiplier[1]) \div sd[c].price_multiplier[2]]]

\* Economy::update_economic_state: the set of results, one per draw
update_economic_state(e) ==
    IF e.month % 120 = 0
    THEN { [e EXCEPT !.economic_state = s] : s \in {"Boom", "Stable", "Recession"} }
    ELSE {e}

\* Economy::update: the set of results
EconomyUpdate(e, w) ==
    LET counted == [e EXCEPT !.month = @ + 1]
        monthly == IF counted.month % 30 = 0 THEN update_monthly_economics(counted)
                   ELSE counted
    IN update_economic_state(update_cargo_prices(update_supply_demand(monthly, w)))

----------------------------------------------------------------------------
(* player.rs *)

\* Player::new; reputation is a whole number throughout (50.0, +-1.0)
PlayerNew(name, starting_money) ==
    [name |-> name, money |-> starting_money, vehicles |-> <<>>,
     stations |-> <<>>, routes |-> <<>>, reputation |-> 50, game_time |-> 0]

\* Player::can_afford
can_afford(p, amount) == TRUE

\* Player::spend_money leaves the player as it is and returns true
spend_money(p, amount) == p

\* Player::add_vehicle
add_vehicle(p, vehicle_type, x, y) ==
    LET paid == spend_money(p, get_purchase_cost(vehicle_type))
    IN [paid EXCEPT !.vehicles =
           Append(@, VehicleNew(Len(p.vehicles), vehicle_type, x, y))]

\* the body of the first loop of Player::update for vehicle i, after
\* vehicle.update has produced the vehicle v
CreditDelivery(p, i, v) ==
    LET profit == calculate_delivery_profit(v)
        paid == has_delivered_cargo(v)
    IN [p EXCEPT
          !.vehicles[i] = v,
          !.money = IF paid THEN @ + profit ELSE @,
          !.routes = [r \in DOMAIN p.routes |->
              IF /\ paid
                 /\ SeqContains(p.routes[r].vehicle_ids, v.id)
                 /\ \A o \in 1 .. r - 1 : ~SeqContains(p.routes[o].vehicle_ids, v.id)
              THEN [p.routes[r] EXCEPT !.profit = @ + profit]
              ELSE p.routes[r]]]

RECURSIVE RunningCosts(_, _)
RunningCosts(vehicles, i) ==
    IF i > Len(vehicles) THEN 0
    ELSE get_running_costs(vehicles[i]) + RunningCosts(vehicles, i + 1)

\* Player::update_reputation
update_reputation(p) ==
    LET on_time_deliveries ==
            Cardinality({ i \in DOMAIN p.vehicles : is_on_time(p.vehicles[i]) })
        total_vehicles == Len(p.vehicles)
    IN IF total_vehicles = 0 THEN p
       ELSE IF 10 * on_time_deliveries > 8 * total_vehicles
       THEN [p EXCEPT !.reputation = Min(@ + 1, 100)]
       ELSE IF 2 * on_time_deliveries < total_vehicles
       THEN [p EXCEPT !.reputation = Max(@ - 1, 0)]
       ELSE p

\* the end of Player::update: running costs, reputation every 30 ticks
SettleCosts(p) ==
    LET charged == [p EXCEPT !.money = @ - RunningCosts(p.vehicles, 1)]
    IN IF p.game_time % 30 = 0 THEN update_reputation(charged) ELSE charged

----------------------------------------------------------------------------
(* game.rs: the command handlers.  A game g is the record                   *)
(* [world, economy, player, ui]; ui holds the fields of Game that the       *)
(* handlers read: the cursor and the three modes.  The fields that only     *)
(* rendering reads (camera, menus, selected tile, notifications) are left   *)
(* out.  ai_players is empty in every game the program constructs.          *)

UiNew ==
    [cursor_x |-> 0, cursor_y |-> 0, selected_vehicle_id |-> None,
     build_mode |-> None, vehicle_order_mode |-> None,
     route_creation_mode |-> None]

\* the starting money of Game::new and Game::new_headless
StartingMoney == 1000000

\* Game::new / Game::new_headless around a generated world
GameNew(w) ==
    [world |-> w, economy |-> EconomyNew,
     player |-> PlayerNew("Player", StartingMoney), ui |-> UiNew]

\* Game::move_cursor
move_cursor(g, direction) ==
    CASE direction = "Up" ->
            IF g.ui.cursor_y > 0 THEN [g EXCEPT !.ui.cursor_y = @ - 1] ELSE g
      [] direction = "Down" ->
            IF g.ui.cursor_y < g.world.height - 1
            THEN [g EXCEPT !.ui.cursor_y = @ + 1] ELSE g
      [] direction = "Left" ->
            IF g.ui.cursor_x > 0 THEN [g EXCEPT !.ui.cursor_x = @ - 1] ELSE g
      [] direction = "Right" ->
            IF g.ui.cursor_x < g.world.width - 1
            THEN [g EXCEPT !.ui.cursor_x = @ + 1] ELSE g

\* the indices of the vehicles with the given id, as iter().find sees them
VehicleWithId(vehicles, id) ==
    { i \in DOMAIN vehicles :
        /\ vehicles[i].id = id
        /\ \A j \in 1 .. i - 1 : vehicles[j].id # id }

\* Game::handle_selection
handle_selection(g) ==
    LET at == { i \in DOMAIN g.player.vehicles :
                  /\ g.player.vehicles[i].x = g.ui.cursor_x
                  /\ g.player.vehicles[i].y = g.ui.cursor_y
                  /\ \A j \in 1 .. i - 1 :
                        ~(/\ g.player.vehicles[j].x = g.ui.cursor_x
                          /\ g.player.vehicles[j].y = g.ui.cursor_y) }
    IN IF at = {} THEN g
       ELSE [g EXCEPT !.ui.selected_vehicle_id =
                Some(g.player.vehicles[CHOOSE i \in at : TRUE].id)]

\* the test without its last part: a tile that exists and is not water
BuildableWhateverStands(w, x, y) ==
    /\ InBounds(w, x, y)
    /\ get_tile(w, x, y).terrain # "Water"

\* the test all four build functions make: the tile exists, is not water and
\* is empty
Buildable(w, x, y) ==
    /\ InBounds(w, x, y)
    /\ get_tile(w, x, y).terrain # "Water"
    /\ get_tile(w, x, y).content.kind = "Empty"

\* Game::build_rail_track: <<game, built>>
build_rail_track(g, x, y) ==
    IF can_afford(g.player, 10000) /\ Buildable(g.world, x, y)
    THEN << [g EXCEPT
               !.player = spend_money(@, 10000),
               !.world = set_tile_content(@, x, y,
                   TrackContent([kind |-> "Straight", horizontal |-> TRUE]))],
            TRUE >>
    ELSE <<g, FALSE>>

\* what build_train_station and build_bus_stop do once the tile passed the
\* test
PlaceStation(g, x, y, cost, label, station_type) ==
    [g EXCEPT
       !.player = [spend_money(@, cost) EXCEPT !.stations = Append(@, <<x, y>>)],
       !.world = [set_tile_content(@, x, y,
                      StationContent(<<label, Len(g.world.stations) + 1>>,
                                     station_type))
                  EXCEPT !.stations = Append(@, <<x, y>>)]]

\* Game::build_train_station: <<game, built>>
build_train_station(g, x, y) ==
    IF can_afford(g.player, 50000) /\ Buildable(g.world, x, y)
    THEN <<PlaceStation(g, x, y, 50000, "Station", "Train"), TRUE>>
    ELSE <<g, FALSE>>

\* Game::build_road: <<game, built>>
build_road(g, x, y) ==
    IF can_afford(g.player, 5000) /\ Buildable(g.world, x, y)
    THEN << [g EXCEPT !.player = spend_money(@, 5000),
                      !.world = set_tile_content(@, x, y, RoadContent)],
            TRUE >>
    ELSE <<g, FALSE>>

\* Game::build_bus_stop: <<game, built>>
build_bus_stop(g, x, y) ==
    IF can_afford(g.player, 25000) /\ Buildable(g.world, x, y)
    THEN <<PlaceStation(g, x, y, 25000, "Bus Stop", "Road"), TRUE>>
    ELSE <<g, FALSE>>

\* Game::buy_vehicle_at_location: <<game, built>>
buy_vehicle_at_location(g, x, y) ==
    << [g EXCEPT !.player = add_vehicle(@, create_vehicle_from_type("Bus"), x, y)],
       TRUE >>

\* Game::handle_build_action
handle_build_action(g, build_action) ==
    LET x == g.ui.cursor_x
        y == g.ui.cursor_y
        build_result ==
            CASE build_action = "BuildRailTrack" -> build_rail_track(g, x, y)
              [] build_action = "BuildTrainStation" -> build_train_station(g, x, y)
              [] build_action = "BuildRoad" -> build_road(g, x, y)
              [] build_action = "BuildBusStop" -> build_bus_stop(g, x, y)
              [] build_action = "BuyVehicle" -> buy_vehicle_at_location(g, x, y)
    IN IF build_result[2]
       THEN [build_result[1] EXCEPT !.ui.build_mode = None]
       ELSE build_result[1]

\* Game::handle_vehicle_order
handle_vehicle_order(g, vehicle_id, order) ==
    LET found == VehicleWithId(g.player.vehicles, vehicle_id)
    IN CASE order = "GoToLocation" ->
               [g EXCEPT !.ui.vehicle_order_mode = Some(<<vehicle_id, order>>)]
         [] order = "CreateRoute" ->
               [g EXCEPT !.ui.route_creation_mode =
                   Some([vehicle_id |-> vehicle_id, waypoints |-> <<>>])]
         [] order = "StartRoute" ->
               IF found # {}
               THEN LET i == CHOOSE j \in found : TRUE
                        v == g.player.vehicles[i]
                    IN IF Len(v.route) > 0
                       THEN [g EXCEPT !.player.vehicles[i].state =
                                Moving(<<v.x, v.y>>, v.route[1], 0)]
                       ELSE g
               ELSE g
         [] order = "Stop" ->
               IF found # {}
               THEN [g EXCEPT !.player.vehicles[CHOOSE j \in found : TRUE].state =
                        StateOf("Idle")]
               ELSE g
         [] order = "SendToDepot" -> g

\* Game::handle_vehicle_order_select
handle_vehicle_order_select(g, vehicle_id, order) ==
    LET x == g.ui.cursor_x
        y == g.ui.cursor_y
        found == VehicleWithId(g.player.vehicles, vehicle_id)
        cleared == [g EXCEPT !.ui.vehicle_order_mode = None]
    IN IF order = "GoToLocation" /\ found # {}
       THEN LET i == CHOOSE j \in found : TRUE
                v == g.player.vehicles[i]
            IN [cleared EXCEPT !.player.vehicles[i] =
                   [v EXCEPT !.route = << <<x, y>> >>,
                             !.route_index = 0,
                             !.state = Moving(<<v.x, v.y>>, <<x, y>>, 0)]]
       ELSE cleared

\* Game::handle_route_creation_select with Game::add_waypoint_to_route
handle_route_creation_select(g) ==
    IF /\ ContentKind(g.world, g.ui.cursor_x, g.ui.cursor_y) = "Station"
       /\ g.ui.route_creation_mode.some
    THEN [g EXCEPT !.ui.route_creation_mode.value.waypoints =
             Append(@, <<g.ui.cursor_x, g.ui.cursor_y>>)]
    ELSE g

\* Game::finish_route_creation
finish_route_creation(g) ==
    IF g.ui.route_creation_mode.some
    THEN LET vehicle_id == g.ui.route_creation_mode.value.vehicle_id
             waypoints == g.ui.route_creation_mode.value.waypoints
             found == VehicleWithId(g.player.vehicles, vehicle_id)
             cleared == [g EXCEPT !.ui.route_creation_mode = None]
         IN IF Len(waypoints) >= 2 /\ found # {}
            THEN [cleared EXCEPT !.player.vehicles[CHOOSE j \in found : TRUE] =
                     assign_route(@, waypoints)]
            ELSE cleared
    ELSE g

\* Game::get_recommended_vehicle_type
get_recommended_vehicle_type(g, x, y) ==
    IF InBounds(g.world, x, y)
    THEN LET tile == get_tile(g.world, x, y)
         IN CASE tile.content.kind = "Track" -> "Train"
              [] tile.content.kind = "Road" -> "Bus"
              [] tile.content.kind = "Station" ->
                    (CASE tile.content.station_type = "Train" -> "Train"
                       [] tile.content.station_type = "Road" -> "Bus"
                       [] tile.content.station_type = "Airport" -> "SmallPlane"
                       [] tile.content.station_type = "Harbor" -> "Ship")
              [] OTHER -> IF tile.terrain = "Water" THEN "Ship" ELSE "Bus"
    ELSE "Bus"

\* Game::handle_vehicle_purchase
handle_vehicle_purchase(g, vehicle_type, x, y) ==
    LET actual_vehicle_type ==
            IF vehicle_type = "Auto" THEN get_recommended_vehicle_type(g, x, y)
            ELSE vehicle_type
    IN [g EXCEPT !.player =
           add_vehicle(@, create_vehicle_from_type(actual_vehicle_type), x, y)]

\* the Select arm of Game::process_input_event
HandleSelect(g) ==
    IF g.ui.build_mode.some THEN handle_build_action(g, g.ui.build_mode.value)
    ELSE IF g.ui.vehicle_order_mode.some
    THEN handle_vehicle_order_select(g, g.ui.vehicle_order_mode.value[1],
                                     g.ui.vehicle_order_mode.value[2])
    ELSE IF g.ui.route_creation_mode.some THEN handle_route_creation_select(g)
    ELSE handle_selection(g)

\* Game::process_input_event, without its Save and Load arms
process_input_event(g, input, cursor_pos) ==
    LET at == [g EXCEPT !.ui.cursor_x = cursor_pos[1], !.ui.cursor_y = cursor_pos[2]]
    IN CASE input.kind = "Move" -> move_cursor(at, input.direction)
         [] input.kind = "Select" -> HandleSelect(at)
         [] input.kind = "BuildAction" ->
               [at EXCEPT !.ui.build_mode = Some(input.build_action)]
         [] input.kind = "VehicleOrder" ->
               IF at.ui.selected_vehicle_id.some
               THEN handle_vehicle_order(at, at.ui.selected_vehicle_id.value,
                                         input.order)
               ELSE at
         [] input.kind = "FinishRouteCreation" -> finish_route_creation(at)
         [] input.kind = "VehiclePurchase" ->
               handle_vehicle_purchase(at, input.vehicle_type,
                                       at.ui.cursor_x, at.ui.cursor_y)
         [] OTHER -> at

----------------------------------------------------------------------------
(* save.rs: the save structures and their conversions.  The file holds a    *)
(* GameSave; serde writes and reads every field of the derived structures,  *)
(* so the file is the GameSave value itself.                                *)

\* TrackTypeSave::from_track_type
from_track_type(track) ==
    CASE track.kind = "Straight" -> [kind |-> "Straight", horizontal |-> track.horizontal]
      [] track.kind = "Curve" -> [kind |-> "Curve", from_dir |-> 0, to_dir |-> 1]
      [] track.kind = "Junction" -> [kind |-> "Junction"]

\* TrackTypeSave::to_track_type
to_track_type(t) ==
    CASE t.kind = "Straight" -> [kind |-> "Straight", horizontal |-> t.horizontal]
      [] t.kind = "Curve" -> [kind |-> "Curve", from_dir |-> "North", to_dir |-> "East"]
      [] t.kind = "Junction" -> [kind |-> "Junction"]

\* TownSave::from_town
from_town(town) ==
    [name |-> town.name, population |-> town.population,
     growth_rate |-> town.growth_rate]

\* TownSave::to_town
to_town(t) ==
    [kind |-> "Town", name |-> t.name, population |-> t.population,
     growth_rate |-> t.growth_rate, cargo_demand |-> EmptyMap,
     cargo_supply |-> EmptyMap]

\* IndustrySave::from_industry
from_industry(industry) ==
    [industry_type |-> industry.industry_type,
     production_rate |-> industry.production_rate,
     cargo_input |-> industry.cargo_input, cargo_output |-> industry.cargo_output]

\* IndustrySave::to_industry
to_industry(i) ==
    [kind |-> "Industry", industry_type |-> i.industry_type,
     production_rate |-> i.production_rate, cargo_input |-> i.cargo_input,
     cargo_output |-> i.cargo_output, stockpile |-> EmptyMap]

\* StationSave::from_station
from_station(station) ==
    [name |-> station.name, station_type |-> station.station_type,
     connections |-> station.connections]

\* StationSave::to_station
to_station(st) ==
    [kind |-> "Station", name |-> st.name, station_type |-> st.station_type,
     cargo_waiting |-> EmptyMap, connections |-> st.connections]

\* TileContentSave::from_tile_content
from_tile_content(content) ==
    CASE content.kind = "Empty" -> [kind |-> "Empty"]
      [] content.kind = "Town" -> [kind |-> "Town", town |-> from_town(content)]
      [] content.kind = "Industry" ->
            [kind |-> "Industry", industry |-> from_industry(content)]
      [] content.kind = "Station" ->
            [kind |-> "Station", station |-> from_station(content)]
      [] content.kind = "Track" ->
            [kind |-> "Track", track |-> from_track_type(content.track)]
      [] content.kind = "Road" -> [kind |-> "Road"]

\* TileContentSave::to_tile_content
to_tile_content(c) ==
    CASE c.kind = "Empty" -> EmptyContent
      [] c.kind = "Town" -> to_town(c.town)
      [] c.kind = "Industry" -> to_industry(c.industry)
      [] c.kind = "Station" -> to_station(c.station)
      [] c.kind = "Track" -> TrackContent(to_track_type(c.track))
      [] c.kind = "Road" -> RoadContent

\* TileSave::from_tile
from_tile(tile) ==
    [terrain |-> tile.terrain, content |-> from_tile_content(tile.content),
     height |-> tile.height]

\* TileSave::to_tile
to_tile(t) ==
    [terrain |-> t.terrain, content |-> to_tile_content(t.content),
     height |-> t.height]

\* WorldSave::from_world
from_world(w) ==
    [width |-> w.width, height |-> w.height,
     tiles |-> [c \in DOMAIN w.tiles |-> from_tile(w.tiles[c])],
     towns |-> w.towns, industries |-> w.industries, stations |-> w.stations]

\* WorldSave::to_world: every field of the world World::new generated is
\* replaced
to_world(ws) ==
    [width |-> ws.width, height |-> ws.height,
     tiles |-> [c \in DOMAIN ws.tiles |-> to_tile(ws.tiles[c])],
     towns |-> ws.towns, industries |-> ws.industries, stations |-> ws.stations]

\* VehicleStateSave::from_vehicle_state
from_vehicle_state(state) ==
    IF state.tag = "Moving"
    THEN [tag |-> "Moving", from |-> state.from, to |-> state.to,
          progress |-> state.progress]
    ELSE [tag |-> state.tag]

\* VehicleStateSave::to_vehicle_state
to_vehicle_state(ss) ==
    IF ss.tag = "Moving" THEN Moving(ss.from, ss.to, ss.progress)
    ELSE StateOf(ss.tag)

\* VehicleSave::from_vehicle
from_vehicle(v) ==
    [id |-> v.id, vehicle_type |-> v.vehicle_type, x |-> v.x, y |-> v.y,
     state |-> from_vehicle_state(v.state), route |-> v.route,
     route_index |-> v.route_index, current_path |-> v.current_path,
     path_index |-> v.path_index, age |-> v.age, reliability |-> v.reliability,
     speed |-> v.speed, last_service |-> v.last_service, profit |-> v.profit,
     on_time_deliveries |-> v.on_time_deliveries,
     total_deliveries |-> v.total_deliveries]

\* the mutation of to_vehicle: the vehicle is loaded without its path
to_vehicle_without_path(vs) ==
    [id |-> vs.id, vehicle_type |-> vs.vehicle_type, x |-> vs.x, y |-> vs.y,
     state |-> to_vehicle_state(vs.state), cargo |-> EmptyMap, route |-> vs.route,
     route_index |-> vs.route_index, current_path |-> <<>>,
     path_index |-> 0, age |-> vs.age, reliability |-> vs.reliability,
     speed |-> vs.speed, last_service |-> vs.last_service, profit |-> vs.profit,
     on_time_deliveries |-> vs.on_time_deliveries,
     total_deliveries |-> vs.total_deliveries]

\* VehicleSave::to_vehicle
to_vehicle(vs) ==
    [id |-> vs.id, vehicle_type |-> vs.vehicle_type, x |-> vs.x, y |-> vs.y,
     state |-> to_vehicle_state(vs.state), cargo |-> EmptyMap, route |-> vs.route,
     route_index |-> vs.route_index, current_path |-> vs.current_path,
     path_index |-> vs.path_index, age |-> vs.age, reliability |-> vs.reliability,
     speed |-> vs.speed, last_service |-> vs.last_service, profit |-> vs.profit,
     on_time_deliveries |-> vs.on_time_deliveries,
     total_deliveries |-> vs.total_deliveries]

\* PlayerSave::from_player (RouteSave::from_route copies every field of a
\* route)
from_player(p) ==
    [name |-> p.name, money |-> p.money,
     vehicles |-> [i \in DOMAIN p.vehicles |-> from_vehicle(p.vehicles[i])],
     stations |-> p.stations, routes |-> p.routes, reputation |-> p.reputation,
     game_time |-> p.game_time]

\* PlayerSave::to_player
to_player(ps) ==
    [PlayerNew(ps.name, ps.money) EXCEPT
       !.vehicles = [i \in DOMAIN ps.vehicles |-> to_vehicle(ps.vehicles[i])],
       !.stations = ps.stations,
       !.routes = ps.routes,
       !.reputation = ps.reputation,
       !.game_time = ps.game_time]

\* EconomySave::from_economy
from_economy(e) ==
    [inflation_rate |-> e.inflation_rate, economic_state |-> e.economic_state,
     month |-> e.month]

\* EconomySave::to_economy
to_economy(es) ==
    [EconomyNew EXCEPT !.inflation_rate = es.inflation_rate,
                       !.economic_state = es.economic_state,
                       !.month = es.month]

\* GameSave::from_game; ai_players is empty
from_game(g) ==
    [world |-> from_world(g.world), player |-> from_player(g.player),
     ai_players |-> <<>>, economy |-> from_economy(g.economy),
     game_time |-> g.player.game_time]

\* GameSave::to_game: the cursor and the modes are those of Game::new
to_game(gs) ==
    [world |-> to_world(gs.world), economy |-> to_economy(gs.economy),
     player |-> to_player(gs.player), ui |-> UiNew]

\* GameSave::load_from_file: an error when the file does not exist or does not
\* parse as a GameSave
load_from_file(file) ==
    IF file.present /\ file.wellformed THEN Some(file.data) ELSE None

\* a Load arm that starts a new company when the file cannot be read
load_or_reset(g, file) ==
    IF load_from_file(file).some
    THEN [g EXCEPT !.world = to_game(load_from_file(file).value).world,
                   !.economy = to_game(load_from_file(file).value).economy,
                   !.player = to_game(load_from_file(file).value).player]
    ELSE [g EXCEPT !.player = PlayerNew("Player", 1000000)]

\* the Load arm of Game::process_input_event: load_game and the three
\* assignments; without a file that can be read the game stays as it is
load_into(g, file) ==
    IF load_from_file(file).some
    THEN [g EXCEPT !.world = to_game(load_from_file(file).value).world,
                   !.economy = to_game(load_from_file(file).value).economy,
                   !.player = to_game(load_from_file(file).value).player]
    ELSE g

----------------------------------------------------------------------------
(* The game as a state machine.  A command is one call of                   *)
(* process_input_event; a tick is one call of Game::update, taken in steps: *)
(* the world and the economy, then one step per vehicle of Player::update,  *)
(* then the settlement that ends Player::update.  Commands and ticks        *)
(* exclude each other (one thread, or the mutex of the web server), so a    *)
(* command is taken only between ticks.  After a panic the game takes no    *)
(* further step: the process is gone, or the mutex is poisoned.             *)

Game == [world |-> world, economy |-> economy, player |-> player, ui |-> ui]

SetGame(g) ==
    /\ world' = g.world
    /\ economy' = g.economy
    /\ player' = g.player
    /\ ui' = g.ui

\* savefile is the file savegame.json together with its history: whether it
\* exists, whether its text parses as a GameSave (wellformed), the GameSave it
\* holds (data), the game it was written from (origin), and how often the
\* game was saved and loaded
NoFile == [present |-> FALSE, saves |-> 0, loads |-> 0]

\* the Mutex of the web server that guards the game: the task that holds the
\* guard ("none" when it is free) and whether a holder panicked.  A game on
\* the terminal runs in one thread with no web server task.
Unlocked == [holder |-> "none", poisoned |-> FALSE]

NoTasks == <<>>

\* the grid of the main specification
Width == 3

Height == 1

\* the attempts of generate_towns and of generate_industries
TownAttempts == 5

IndustryAttempts == 8

\* vehicles a behaviour may purchase
MaxVehicles == 1

\* waypoints a route under creation may collect
MaxWaypoints == 2

\* commands a behaviour may send
MaxCommands == 6

\* commands a behaviour of more than ShortTicks ticks may send
FewCommands == 3

\* a generated world: grass with a water tile at the east end, one town in
\* the west (the other attempts fell on the water tile) and a coal mine on
\* the water tile (the other attempts fell on occupied tiles)
MainWorld ==
    WorldNew(Width, Height,
        [c \in Coords(Width, Height) |-> IF c[1] = Width - 1 THEN "Water" ELSE "Grass"],
        [c \in Coords(Width, Height) |-> 0],
        [i \in 1 .. TownAttempts |->
            IF i = 1 THEN [x |-> 0, y |-> 0, population |-> 4000, growth_rate |-> 100]
            ELSE [x |-> Width - 1, y |-> 0, population |-> 500, growth_rate |-> 10]],
        [i \in 1 .. IndustryAttempts |->
            IF i = 1 THEN [x |-> Width - 1, y |-> 0, industry_type |-> "CoalMine",
                           production_rate |-> 100]
            ELSE [x |-> 0, y |-> 0, industry_type |-> "Farm", production_rate |-> 10]])

\* the cursor positions commands arrive with: the free tile, the tile of the
\* coal mine and one position east of the grid
CursorPositions == { <<x, 0>> : x \in Width - 2 .. Width }

BuildActions == {"BuildRailTrack", "BuildTrainStation", "BuildRoad", "BuildBusStop"}

VehicleOrders == {"GoToLocation", "CreateRoute", "StartRoute", "Stop", "SendToDepot"}

PurchaseTypes == {"Train", "SmallTruck", "SmallPlane"}

Init ==
    /\ world = MainWorld
    /\ economy = EconomyNew
    /\ player = PlayerNew("Player", StartingMoney)
    /\ ui = UiNew
    /\ pc = "idle"
    /\ vi = 0
    /\ panicked = FALSE
    /\ savefile = NoFile
    /\ mutex = Unlocked
    /\ task = NoTasks
    /\ ncmd = 0

Ready == pc = "idle" /\ ~panicked

\* the bound on commands: a command that leaves the game as it is does not
\* count
CommandAllowed ==
    /\ ncmd < MaxCommands
    /\ player.game_time > ShortTicks => ncmd < FewCommands

Counted(g) == IF g = Game THEN ncmd ELSE ncmd + 1

\* the bound on ticks
TickAllowed ==
    /\ player.game_time < MaxTicks
    /\ ncmd > FewCommands => player.game_time < ShortTicks

\* a command that is not a tick, a save or a load
Command(input, cursor_pos) ==
    /\ Ready
    /\ CommandAllowed
    /\ SetGame(process_input_event(Game, input, cursor_pos))
    /\ ncmd' = Counted(process_input_event(Game, input, cursor_pos))
    /\ UNCHANGED <<pc, vi, panicked, savefile, mutex, task>>

\* InputEvent::Move
Move ==
    \E d \in {"Up", "Down", "Left", "Right"} :
        Command([kind |-> "Move", direction |-> d], <<ui.cursor_x, ui.cursor_y>>)

\* InputEvent::Select with a cursor position of the given set
SelectAt(positions) ==
    \E pos \in positions :
        /\ (~ui.build_mode.some /\ ~ui.vehicle_order_mode.some
              /\ ui.route_creation_mode.some)
           => Len(ui.route_creation_mode.value.waypoints) < MaxWaypoints
        /\ (ui.build_mode.some /\ ui.build_mode.value = "BuyVehicle")
           => Len(player.vehicles) < MaxVehicles
        /\ Command([kind |-> "Select"], pos)

Select == SelectAt(CursorPositions)

\* InputEvent::BuildAction with an action of the given set
BuildActionOf(actions) ==
    \E a \in actions :
        Command([kind |-> "BuildAction", build_action |-> a],
                <<ui.cursor_x, ui.cursor_y>>)

BuildAction == BuildActionOf(BuildActions)

\* InputEvent::VehicleOrder as the web server's vehicle_order sends it: the
\* vehicle id of the request is selected first
VehicleOrderOf(orders) ==
    \E id \in 0 .. MaxVehicles - 1, o \in orders :
        /\ Ready
        /\ CommandAllowed
        /\ SetGame(process_input_event(
               [Game EXCEPT !.ui.selected_vehicle_id = Some(id)],
               [kind |-> "VehicleOrder", order |-> o], <<ui.cursor_x, ui.cursor_y>>))
        /\ ncmd' = Counted(process_input_event(
               [Game EXCEPT !.ui.selected_vehicle_id = Some(id)],
               [kind |-> "VehicleOrder", order |-> o], <<ui.cursor_x, ui.cursor_y>>))
        /\ UNCHANGED <<pc, vi, panicked, savefile, mutex, task>>

VehicleOrder == VehicleOrderOf(VehicleOrders)

\* InputEvent::FinishRouteCreation
FinishRouteCreation ==
    Command([kind |-> "FinishRouteCreation"], <<ui.cursor_x, ui.cursor_y>>)

\* InputEvent::VehiclePurchase with a type and a position of the given sets
VehiclePurchaseOf(types, positions) ==
    \E t \in types, pos \in positions :
        /\ Len(player.vehicles) < MaxVehicles
        /\ Command([kind |-> "VehiclePurchase", vehicle_type |-> t], pos)

VehiclePurchase == VehiclePurchaseOf(PurchaseTypes, CursorPositions)

\* a tick whose market update reads the world before World::update
TickBeginMarketFirst ==
    /\ Ready
    /\ TickAllowed
    /\ world' = WorldUpdate(world)
    /\ economy' \in EconomyUpdate(economy, world)
    /\ player' = [player EXCEPT !.game_time = @ + 1]
    /\ pc' = "vehicles"
    /\ vi' = 1
    /\ UNCHANGED <<ui, panicked, savefile, ncmd, mutex, task>>

\* Game::update up to the loop over the vehicles: World::update,
\* Economy::update and the count of the tick
TickBegin ==
    /\ Ready
    /\ TickAllowed
    /\ world' = WorldUpdate(world)
    /\ economy' \in EconomyUpdate(economy, world')
    /\ player' = [player EXCEPT !.game_time = @ + 1]
    /\ pc' = "vehicles"
    /\ vi' = 1
    /\ UNCHANGED <<ui, panicked, savefile, ncmd, mutex, task>>

\* one pass of the loop over the vehicles in Player::update
VehicleStep ==
    /\ pc = "vehicles" /\ ~panicked
    /\ vi <= Len(player.vehicles)
    /\ \E r \in VehicleUpdate(player.vehicles[vi], world) :
          /\ world' = r.w
          /\ panicked' = r.panic
          /\ player' = IF r.panic THEN [player EXCEPT !.vehicles[vi] = r.v]
                       ELSE CreditDelivery(player, vi, r.v)
          /\ vi' = IF r.panic THEN vi ELSE vi + 1
    /\ UNCHANGED <<economy, ui, pc, savefile, ncmd, mutex, task>>

\* the end of Player::update and of Game::update
TickEnd ==
    /\ pc = "vehicles" /\ ~panicked
    /\ vi > Len(player.vehicles)
    /\ player' = SettleCosts(player)
    /\ pc' = "idle"
    /\ vi' = 0
    /\ UNCHANGED <<world, economy, ui, panicked, savefile, ncmd, mutex, task>>

Next ==
    \/ Move
    \/ Select
    \/ BuildAction
    \/ VehicleOrder
    \/ FinishRouteCreation
    \/ VehiclePurchase
    \/ TickBegin
    \/ VehicleStep
    \/ TickEnd

Spec == Init /\ [][Next]_vars

----------------------------------------------------------------------------
(* Properties of the vehicle state machine, checked under Spec *)

\* a step of the loop over the vehicles: the update of vehicle vi
IsVehicleStep == pc = "vehicles" /\ pc' = "vehicles"

\* a step of a tick
IsTickStep == pc # "idle" \/ pc' # "idle"

\* the station a vehicle stands on, if it stands on one
OnStation(v) == ContentKind(world, v.x, v.y) = "Station"

\* C1: in every reachable state, the quantities in the hold of every vehicle
\* sum to at most get_capacity()
C1_HoldWithinCapacity ==
    \A i \in DOMAIN player.vehicles :
        MapSum(player.vehicles[i].cargo) <= get_capacity(player.vehicles[i])

\* a vehicle has loaded up to its capacity and left cargo at the station
C1_Witness ==
    \E i \in DOMAIN player.vehicles :
        LET v == player.vehicles[i]
        IN /\ v.state.tag = "Idle"
           /\ MapSum(v.cargo) = get_capacity(v)
           /\ OnStation(v)
           /\ MapSum(world.tiles[<<v.x, v.y>>].content.cargo_waiting) > 0
           /\ Cardinality({k \in CargoType : v.cargo[k] > 0}) = 2

\* C2: when a vehicle in state Loading on a Station tile is updated, with
\* A = capacity - held total and W = total waiting at the station, its held
\* total rises by min(A, W), every kind falls at the station by what was
\* added to the hold of that kind and not below zero, and no other tile's
\* station buffer changes
C2_LoadTakesMinOfRoomAndWaiting ==
    [][ (/\ IsVehicleStep
         /\ player.vehicles[vi].state.tag = "Loading"
         /\ OnStation(player.vehicles[vi]))
        => LET v == player.vehicles[vi]
               after == player'.vehicles[vi]
               here == <<v.x, v.y>>
               waiting == world.tiles[here].content.cargo_waiting
               left == world'.tiles[here].content.cargo_waiting
               A == get_capacity(v) - MapSum(v.cargo)
               W == MapSum(waiting)
           IN /\ MapSum(after.cargo) - MapSum(v.cargo) = Min(A, W)
              /\ \A k \in CargoType :
                    /\ after.cargo[k] >= v.cargo[k]
                    /\ left[k] >= 0
                    /\ waiting[k] - left[k] = after.cargo[k] - v.cargo[k]
              /\ \A c \in DOMAIN world.tiles : c # here =>
                    world'.tiles[c] = world.tiles[c]
              /\ ~panicked' ]_vars

\* a vehicle has just loaded everything that waited at its station and has
\* room left
C2_Witness ==
    /\ pc = "vehicles"
    /\ vi > 1
    /\ LET v == player.vehicles[vi - 1]
       IN /\ v.state.tag = "Idle"
          /\ OnStation(v)
          /\ MapSum(v.cargo) > 0
          /\ MapSum(v.cargo) < get_capacity(v)
          /\ MapSum(world.tiles[<<v.x, v.y>>].content.cargo_waiting) = 0

\* C3: a vehicle with an empty route is Idle in every state, and no step of a
\* tick changes its state, position, cargo, route_index, current_path or
\* path_index
C3_EmptyRouteStaysIdle ==
    /\ [](\A i \in DOMAIN player.vehicles :
            player.vehicles[i].route = <<>> => player.vehicles[i].state.tag = "Idle")
    /\ [][ IsTickStep =>
            /\ Len(player'.vehicles) = Len(player.vehicles)
            /\ \A i \in DOMAIN player.vehicles :
                  player.vehicles[i].route = <<>> =>
                      LET v == player.vehicles[i]
                          after == player'.vehicles[i]
                      IN /\ after.state = v.state
                         /\ after.x = v.x /\ after.y = v.y
                         /\ after.cargo = v.cargo
                         /\ after.route = v.route
                         /\ after.route_index = v.route_index
                         /\ after.current_path = v.current_path
                         /\ after.path_index = v.path_index ]_vars

\* a purchased vehicle without a route has been through ticks
C3_Witness ==
    \E i \in DOMAIN player.vehicles :
        /\ player.vehicles[i].route = <<>>
        /\ player.vehicles[i].state.tag = "Idle"
        /\ player.vehicles[i].age = MaxTicks

\* the tiles a train at one of the tiles of seen can get to: the closure
\* of seen under steps to 4-adjacent Track or Station tiles
RECURSIVE RailClosure(_, _)
RailClosure(w, seen) ==
    LET Dist(a, b) ==
            (IF a[1] > b[1] THEN a[1] - b[1] ELSE b[1] - a[1])
            + (IF a[2] > b[2] THEN a[2] - b[2] ELSE b[2] - a[2])
        more == { c \in DOMAIN w.tiles :
                    /\ c \notin seen
                    /\ w.tiles[c].content.kind \in {"Track", "Station"}
                    /\ \E s \in seen : Dist(c, s) = 1 }
    IN IF more = {} THEN seen ELSE RailClosure(w, seen \cup more)

\* an idle train whose current waypoint no rail connects to its tile
StrandedTrain(v) ==
    /\ v.vehicle_type.class = "Train"
    /\ v.state.tag = "Idle"
    /\ v.route_index < Len(v.route)
    /\ v.route[v.route_index + 1] \notin RailClosure(world, {<<v.x, v.y>>})

\* C4: the update of an idle train whose current waypoint is not connected to
\* its tile through 4-adjacent Track or Station tiles leaves it Idle at the
\* same position and does not fail
C4_StrandedTrainStaysIdle ==
    [][ (IsVehicleStep /\ StrandedTrain(player.vehicles[vi]))
        => /\ player'.vehicles[vi].state.tag = "Idle"
           /\ player'.vehicles[vi].x = player.vehicles[vi].x
           /\ player'.vehicles[vi].y = player.vehicles[vi].y
           /\ ~panicked' ]_vars

\* an idle train with an unreachable waypoint has just been updated
C4_Witness ==
    /\ pc = "vehicles"
    /\ vi > 1
    /\ StrandedTrain(player.vehicles[vi - 1])
    /\ player.vehicles[vi - 1].age > 0

\* C5: after any sequence of commands every tick runs to completion; no
\* update of a vehicle ends in a panic
C5_EveryTickCompletes == ~panicked

\* C11: get_tile(x, y) returns None exactly when x >= width or y >= height
\* and the tile at (x, y) otherwise, and no step of a tick or of a command
\* changes the dimensions of the grid or the set of its coordinates
C11_GetTileNoneIffOutOfBounds ==
    /\ [](\A x \in 0 .. Width + 1, y \in 0 .. Height + 1 :
            /\ get_tile_option(world, x, y).some
                  <=> ~(x >= world.width \/ y >= world.height)
            /\ get_tile_option(world, x, y).some
                  => get_tile_option(world, x, y).value = get_tile(world, x, y))
    /\ [][ /\ world'.width = world.width
           /\ world'.height = world.height
           /\ DOMAIN world'.tiles = DOMAIN world.tiles ]_vars

\* after a tick, with a station built, the lookup finds the tiles of the
\* grid and nothing east or south of it
C11_Witness ==
    /\ player.game_time > 0
    /\ \E c \in DOMAIN world.tiles : world.tiles[c].content.kind = "Station"
    /\ \A c \in Coords(Width, Height) : get_tile_option(world, c[1], c[2]).some
    /\ ~get_tile_option(world, Width, 0).some
    /\ ~get_tile_option(world, 0, Height).some

\* an idle ship or aircraft whose current waypoint is not its position
AwayFromWaypoint(v) ==
    /\ v.vehicle_type.class \in {"Ship", "Aircraft"}
    /\ v.state.tag = "Idle"
    /\ v.route_index < Len(v.route)
    /\ v.route[v.route_index + 1] # <<v.x, v.y>>

\* C14: the update of an idle ship or aircraft whose current waypoint differs
\* from its position puts it in state Moving toward that waypoint, and it
\* does not enter Loading at a position other than the waypoint
C14_ShipOrAircraftDeparts ==
    [][ (IsVehicleStep /\ AwayFromWaypoint(player.vehicles[vi]))
        => LET v == player.vehicles[vi]
               after == player'.vehicles[vi]
           IN /\ after.state.tag = "Moving"
              /\ after.state.to = v.route[v.route_index + 1]
              /\ after.state.tag = "Loading"
                    => <<after.x, after.y>> = v.route[v.route_index + 1] ]_vars

\* the initial price p after n monthly inflation steps
RECURSIVE Inflated(_, _)
Inflated(p, n) ==
    IF n = 0 THEN p
    ELSE Inflated((p * (100 + EconomyNew.inflation_rate)) \div 100, n - 1)

\* the base price of a kind: its initial price changed by the inflation
\* steps of the months gone by
BasePrice(c) == Inflated(EconomyNew.cargo_prices[c], economy.month \div 30)

\* C16: after every market update the price of each kind is its base price
\* times its price_multiplier, and so lies between 0.5 and 1.5 times the base
\* price
C16_PriceIsBaseTimesMultiplier ==
    economy.month > 0 =>
        \A c \in CargoType :
            LET m == economy.supply_demand[c].price_multiplier
            IN /\ economy.cargo_prices[c] = (BasePrice(c) * m[1]) \div m[2]
               /\ 2 * economy.cargo_prices[c] >= BasePrice(c)
               /\ 2 * economy.cargo_prices[c] <= 3 * BasePrice(c)

\* the supply of a kind summed over the towns and industries of the grid
GridSupply(w, c) ==
    SumOver([t \in TilesOfKind(w, "Town") |-> TownSupply(w.tiles[t].content, c)],
            TilesOfKind(w, "Town"))
    + SumOver([i \in TilesOfKind(w, "Industry") |->
                  IndustrySupply(w.tiles[i].content, c)],
              TilesOfKind(w, "Industry"))

\* the demand of a kind summed over the towns of the grid
GridDemand(w, c) ==
    SumOver([t \in TilesOfKind(w, "Town") |-> TownDemand(w.tiles[t].content, c)],
            TilesOfKind(w, "Town"))

\* C17: after every market update the stored supply and demand of every kind
\* are the sums over the towns and industries of the grid, zero for a kind
\* that none of them contributes to
C17_SupplyDemandFromGrid ==
    economy.month > 0 =>
        \A c \in CargoType :
            /\ economy.supply_demand[c].supply = GridSupply(world, c)
            /\ economy.supply_demand[c].demand = GridDemand(world, c)

\* the vehicle a step has appended to the player's list
Bought == player'.vehicles[Len(player'.vehicles)]

\* C19: a step that adds a vehicle adds exactly one, in state Idle, with the
\* next sequential id, which no earlier vehicle of the player has, and only
\* when the player's money covers the purchase cost of the vehicle; a
\* purchase the money does not cover leaves the list and the money as they were
C19_PurchaseNeedsMoney ==
    [][Len(player'.vehicles) # Len(player.vehicles) =>
          /\ SubSeq(player'.vehicles, 1, Len(player.vehicles)) = player.vehicles
          /\ Len(player'.vehicles) = Len(player.vehicles) + 1
          /\ Bought.state = StateOf("Idle")
          /\ Bought.id = Len(player.vehicles)
          /\ \A i \in DOMAIN player.vehicles : player.vehicles[i].id # Bought.id
          /\ get_purchase_cost(Bought.vehicle_type) <= player.money]_vars

\* the build mode holds one of the four actions that put something on a tile
Building == ui.build_mode.some /\ ui.build_mode.value \in BuildActions

\* InputEvent::Select at a position in the present state
SelectedAt(pos) == process_input_event(Game, [kind |-> "Select"], pos)

\* C20: no step changes the content variant of a tile that is not Empty, and
\* a build on a tile that is not Empty, on water or outside the grid leaves
\* the world as it was and the build mode active
C20_ContentVariantIsPermanent ==
    /\ [][\A c \in DOMAIN world.tiles :
             world.tiles[c].content.kind # "Empty" =>
                 world'.tiles[c].content.kind = world.tiles[c].content.kind]_vars
    /\ [](\A pos \in CursorPositions :
             Building /\ ~Buildable(world, pos[1], pos[2]) =>
                 /\ SelectedAt(pos).world = world
                 /\ SelectedAt(pos).ui.build_mode = ui.build_mode)

\* reached: after a tick, the build mode is active with the cursor on the
\* station the player has built, next to water and to the edge of the grid
C20_Witness ==
    /\ Building
    /\ player.game_time > 0
    /\ ContentKind(world, Width - 2, 0) = "Station"
    /\ <<ui.cursor_x, ui.cursor_y>> = <<Width - 2, 0>>
    /\ ~Buildable(world, Width - 1, 0)
    /\ ~Buildable(world, Width, 0)

\* the coordinates of the grid and of one row and one column beyond it
NearGrid == (0 .. Width) \X (0 .. Height)

\* C21: no step changes the terrain or the height of a tile; a write of a
\* content at coordinates of the grid changes the content of that tile and
\* nothing else of the world, and a write outside the grid changes nothing
C21_TerrainAndHeightAreFixed ==
    /\ [][\A c \in DOMAIN world.tiles :
             /\ c \in DOMAIN world'.tiles
             /\ world'.tiles[c].terrain = world.tiles[c].terrain
             /\ world'.tiles[c].height = world.tiles[c].height]_vars
    /\ [](\A pos \in NearGrid :
             LET written == set_tile_content(world, pos[1], pos[2], RoadContent)
             IN IF pos \in DOMAIN world.tiles
                THEN /\ written.tiles[pos].content = RoadContent
                     /\ written = [world EXCEPT !.tiles[pos].content = RoadContent]
                     /\ written.tiles[pos].terrain = world.tiles[pos].terrain
                     /\ written.tiles[pos].height = world.tiles[pos].height
                     /\ \A c \in DOMAIN world.tiles \ {pos} :
                            written.tiles[c] = world.tiles[c]
                ELSE written = world)

\* reached: after a tick the player's build has written a station on a tile
\* of the grid, next to a water tile and to the edge of the grid
C21_Witness ==
    /\ player.game_time > 0
    /\ ContentKind(world, Width - 2, 0) \in {"Station", "Track", "Road"}
    /\ world.tiles[<<Width - 1, 0>>].terrain = "Water"
    /\ <<Width, 0>> \notin DOMAIN world.tiles

\* the station type at which a vehicle of the class may load
StationTypeFor(class) ==
    CASE class = "Train" -> "Train"
      [] class = "Road" -> "Road"
      [] class = "Aircraft" -> "Airport"
      [] class = "Ship" -> "Harbor"

\* C23: the update of a vehicle in state Loading at a station whose type is
\* not the one of the vehicle's class takes nothing from the station and
\* adds nothing to the hold
C23_LoadsOnlyAtMatchingStation ==
    [][ (/\ IsVehicleStep
         /\ player.vehicles[vi].state.tag = "Loading"
         /\ OnStation(player.vehicles[vi])
         /\ world.tiles[<<player.vehicles[vi].x, player.vehicles[vi].y>>]
                .content.station_type
               # StationTypeFor(player.vehicles[vi].vehicle_type.class))
        => LET v == player.vehicles[vi]
               here == <<v.x, v.y>>
           IN /\ world'.tiles[here].content.cargo_waiting
                    = world.tiles[here].content.cargo_waiting
              /\ player'.vehicles[vi].cargo = v.cargo ]_vars

\* C26: the update of a Moving vehicle adds speed / 1000 to progress and
\* leaves the position alone while progress stays below 1; the update on
\* which progress reaches 1 completes, puts the vehicle on `to` and either
\* heads for the next tile of the path with progress 0 or, on the last hop,
\* leaves the vehicle Loading with current_path cleared and path_index 0;
\* between ticks a Moving vehicle has progress below 1
C26_MovingAdvancesHopByHop ==
    /\ [][ (IsVehicleStep /\ player.vehicles[vi].state.tag = "Moving")
           => LET v == player.vehicles[vi]
                  after == player'.vehicles[vi]
                  progress == v.state.progress + v.speed
              IN IF progress < 1000
                 THEN /\ after.state = [v.state EXCEPT !.progress = progress]
                      /\ <<after.x, after.y>> = <<v.x, v.y>>
                      /\ after.current_path = v.current_path
                      /\ after.path_index = v.path_index
                 ELSE /\ ~panicked'
                      /\ <<after.x, after.y>> = v.state.to
                      /\ \/ /\ after.state.tag = "Moving"
                            /\ after.state.progress = 0
                            /\ after.path_index = v.path_index + 1
                            /\ after.path_index < Len(v.current_path)
                            /\ after.state.to = v.current_path[after.path_index + 1]
                            /\ after.current_path = v.current_path
                         \/ /\ after.state.tag = "Loading"
                            /\ v.path_index >= Len(v.current_path) - 1
                            /\ after.current_path = <<>>
                            /\ after.path_index = 0 ]_vars
    /\ [](pc = "idle" =>
            \A i \in DOMAIN player.vehicles :
                player.vehicles[i].state.tag = "Moving" =>
                    /\ player.vehicles[i].state.progress >= 0
                    /\ player.vehicles[i].state.progress < 1000)

\* C33: a Moving vehicle has a current_path with 1 <= path_index <
\* len(current_path) and its `to` is current_path[path_index]; a vehicle
\* that is not Moving has path_index 0 and an empty current_path
C33_MovingHasPath ==
    \A i \in 1 .. Len(player.vehicles) :
        LET v == player.vehicles[i]
        IN IF v.state.tag = "Moving"
           THEN /\ v.path_index >= 1
                /\ v.path_index < Len(v.current_path)
                /\ v.state.to = v.current_path[v.path_index + 1]
           ELSE v.path_index = 0 /\ v.current_path = <<>>

\* C35: every vehicle stands on a tile of the grid and the cursor is on a
\* tile of the grid, whatever positions the commands arrive with
C35_PositionsInsideGrid ==
    /\ ui.cursor_x < world.width
    /\ ui.cursor_y < world.height
    /\ \A i \in 1 .. Len(player.vehicles) :
          /\ player.vehicles[i].x < world.width
          /\ player.vehicles[i].y < world.height

----------------------------------------------------------------------------
(* The world on its own: World::update over the worlds that World::new can  *)
(* generate on the grid, taken in steps: growth and production, then the    *)
(* two diffusions, then the rest of Game::update.  The player builds        *)
(* stations between ticks.                                                  *)

\* the draws of generate_towns: the first attempt falls on a grass tile, the
\* second on any tile (the tile of the first included), the others on the
\* water tile; rng.gen_range(500..5000) and rng.gen_range(0.1..2.0)
TownDraws ==
    { [i \in 1 .. TownAttempts |->
          IF i = 1 THEN [x |-> x1, y |-> 0, population |-> p1, growth_rate |-> g1]
          ELSE IF i = 2 THEN [x |-> x2, y |-> 0, population |-> 1000,
                              growth_rate |-> 100]
          ELSE [x |-> Width - 1, y |-> 0, population |-> 500, growth_rate |-> 10]]
      : x1 \in 0 .. Width - 2, x2 \in 0 .. Width - 1,
        p1 \in {500, 4999}, g1 \in {10, 199} }

\* the draws of generate_industries: the first attempt falls on any tile, the
\* others on the tile east of it (wrapping) with the other industry type;
\* rng.gen_range(10..100)
IndustryDraws ==
    { [i \in 1 .. IndustryAttempts |->
          IF i = 1
          THEN [x |-> x, y |-> 0, industry_type |-> t, production_rate |-> r]
          ELSE [x |-> (x + 1) % Width, y |-> 0,
                industry_type |-> IF t = "CoalMine" THEN "SteelMill" ELSE "CoalMine",
                production_rate |-> 50]]
      : x \in 0 .. Width - 1, t \in {"CoalMine", "SteelMill"}, r \in {10, 99} }

GeneratedWorlds ==
    { WorldNew(Width, Height,
          [c \in Coords(Width, Height) |-> IF c[1] = Width - 1 THEN "Water" ELSE "Grass"],
          [c \in Coords(Width, Height) |-> 0], td, id)
      : td \in TownDraws, id \in IndustryDraws }

InitWorld ==
    /\ world \in GeneratedWorlds
    /\ economy = EconomyNew
    /\ player = PlayerNew("Player", StartingMoney)
    /\ ui = UiNew
    /\ pc = "idle"
    /\ vi = 0
    /\ panicked = FALSE
    /\ savefile = NoFile
    /\ mutex = Unlocked
    /\ task = NoTasks
    /\ ncmd = 0

\* the towns loop and the industries loop of World::update
WorldGrow ==
    /\ pc = "idle"
    /\ player.game_time < MaxWorldTicks
    /\ world' = WorldGrowAndProduce(world)
    /\ pc' = "diffuse"
    /\ UNCHANGED <<economy, player, ui, vi, panicked, savefile, ncmd, mutex, task>>

\* the end of World::update: the diffusion of cargo and of passengers
WorldDiffuse ==
    /\ pc = "diffuse"
    /\ world' = transfer_passengers_to_stations(
                    transfer_cargo_to_stations(world, 1), 1)
    /\ pc' = "market"
    /\ UNCHANGED <<economy, player, ui, vi, panicked, savefile, ncmd, mutex, task>>

\* the rest of Game::update: Economy::update and Player::update
WorldTickRest ==
    /\ pc = "market"
    /\ economy' \in EconomyUpdate(economy, world)
    /\ player' = SettleCosts([player EXCEPT !.game_time = @ + 1])
    /\ pc' = "idle"
    /\ UNCHANGED <<world, ui, vi, panicked, savefile, ncmd, mutex, task>>

\* Game::build_train_station between two ticks
WorldBuildStation ==
    \E c \in Coords(Width, Height) :
        /\ pc = "idle"
        /\ build_train_station(Game, c[1], c[2])[2]
        /\ SetGame(build_train_station(Game, c[1], c[2])[1])
        /\ UNCHANGED <<pc, vi, panicked, savefile, ncmd, mutex, task>>

NextWorld ==
    \/ WorldGrow
    \/ WorldDiffuse
    \/ WorldTickRest
    \/ WorldBuildStation

SpecWorld == InitWorld /\ [][NextWorld]_vars

----------------------------------------------------------------------------
(* Properties of World::update, checked under SpecWorld *)

\* the step of the towns loop and the industries loop
IsGrowStep == pc = "idle" /\ pc' = "diffuse"

\* the step of the two diffusions
IsDiffuseStep == pc = "diffuse" /\ pc' = "market"

TownTiles == { c \in DOMAIN world.tiles : world.tiles[c].content.kind = "Town" }

IndustryTiles ==
    { c \in DOMAIN world.tiles : world.tiles[c].content.kind = "Industry" }

\* C9: for every town and every tick, the population after the tick is
\* floor(population * (1 + growth_rate / 100)) of the population before it,
\* the growth being applied once, and the population never decreases
C9_PopulationGrowsOncePerTick ==
    [][ \A c \in TownTiles :
          LET town == world.tiles[c].content
              after == world'.tiles[c].content
          IN /\ after.kind = "Town"
             /\ after.population >= town.population
             /\ after.population =
                   IF IsGrowStep
                   THEN (town.population * (10000 + town.growth_rate)) \div 10000
                   ELSE town.population ]_vars

\* C10: the production step raises every output kind of an industry without
\* inputs by production_rate and no other kind; the diffusion step removes
\* from every kind of every stockpile between nothing and what is there; an
\* industry with inputs has an empty stockpile in every state
C10_IndustryStockpile ==
    /\ [](\A c \in IndustryTiles :
            world.tiles[c].content.cargo_input # <<>> =>
                \A k \in CargoType : world.tiles[c].content.stockpile[k] = 0)
    /\ [][ IsGrowStep =>
            \A c \in IndustryTiles :
                LET industry == world.tiles[c].content
                    after == world'.tiles[c].content
                IN industry.cargo_input = <<>> =>
                      \A k \in CargoType :
                          after.stockpile[k] =
                              IF SeqContains(industry.cargo_output, k)
                              THEN industry.stockpile[k] + industry.production_rate
                              ELSE industry.stockpile[k] ]_vars
    /\ [][ IsDiffuseStep =>
            \A c \in IndustryTiles, k \in CargoType :
                /\ world'.tiles[c].content.stockpile[k] >= 0
                /\ world'.tiles[c].content.stockpile[k]
                      <= world.tiles[c].content.stockpile[k] ]_vars

\* after the diffusion of a later tick, a coal mine keeps a part of its
\* stockpile, a station holds coal of it, and a steel mill stands in the
\* same world or a station took the tile
C10_Witness ==
    /\ pc = "market"
    /\ player.game_time >= 1
    /\ \E c \in IndustryTiles :
          /\ world.tiles[c].content.cargo_input = <<>>
          /\ world.tiles[c].content.stockpile["Coal"] > world.tiles[c].content.production_rate
    /\ \E c \in IndustryTiles : world.tiles[c].content.cargo_input # <<>>

\* no coordinate stands twice in the list
NoCoordinateTwice(list) ==
    \A i, j \in 1 .. Len(list) : list[i] = list[j] => i = j

\* C36: world.towns lists no coordinate twice and every coordinate it lists
\* holds a town; world.industries lists no coordinate twice and every
\* coordinate it lists holds an industry
C36_TownsAndIndustriesListedOnce ==
    /\ NoCoordinateTwice(world.towns)
    /\ \A i \in 1 .. Len(world.towns) :
          world.tiles[world.towns[i]].content.kind = "Town"
    /\ NoCoordinateTwice(world.industries)
    /\ \A i \in 1 .. Len(world.industries) :
          world.tiles[world.industries[i]].content.kind = "Industry"

\* the part of C36 that holds: the list of the industries has no coordinate
\* twice, every tile it lists holds an industry and every tile world.towns
\* lists holds a town
C36_ListedTilesHoldTheirKind ==
    /\ \A i \in 1 .. Len(world.towns) :
          world.tiles[world.towns[i]].content.kind = "Town"
    /\ NoCoordinateTwice(world.industries)
    /\ \A i \in 1 .. Len(world.industries) :
          world.tiles[world.industries[i]].content.kind = "Industry"

StationTiles ==
    { c \in DOMAIN world.tiles : world.tiles[c].content.kind = "Station" }

\* what the industries hold and the stations keep waiting of a kind
StockAndWaiting(w, k) ==
    SumOver([c \in TilesOfKind(w, "Industry") |-> w.tiles[c].content.stockpile[k]],
            TilesOfKind(w, "Industry"))
    + SumOver([c \in TilesOfKind(w, "Station") |-> w.tiles[c].content.cargo_waiting[k]],
              TilesOfKind(w, "Station"))

\* C28: the diffusion step takes from an industry's stockpile what it puts
\* at stations: an industry with no station within Chebyshev distance 3
\* keeps its stockpile, and of every kind of freight the industries and the
\* stations together hold as much after the step as before it
C28_IndustryDiffusionConserves ==
    [][ IsDiffuseStep =>
          /\ \A c \in IndustryTiles :
                Window(world, c[1], c[2], 3) \cap StationTiles = {} =>
                    world'.tiles[c].content.stockpile
                        = world.tiles[c].content.stockpile
          /\ \A k \in CargoType \ {"Passengers"} :
                StockAndWaiting(world', k) = StockAndWaiting(world, k) ]_vars

----------------------------------------------------------------------------
(* The market on its own: Economy::update_cargo_prices applied to economies *)
(* whose supply and demand (public u32 fields) are drawn for three kinds.   *)

\* applications of update_cargo_prices in a behaviour
MaxPricings == 2

MarketKinds == {"Coal", "Steel", "Goods"}

MarketSupplies == {0, 100, 1000}

MarketDemands == {0, 50, 120, 150, 151}

Economies ==
    { [EconomyNew EXCEPT !.supply_demand =
          [c \in CargoType |->
              IF c \in MarketKinds
              THEN [supply |-> sd[c][1], demand |-> sd[c][2],
                    price_multiplier |-> <<1, 1>>]
              ELSE @[c]]]
      : sd \in [MarketKinds -> MarketSupplies \X MarketDemands] }

InitMarket ==
    /\ world = MainWorld
    /\ economy \in Economies
    /\ player = PlayerNew("Player", StartingMoney)
    /\ ui = UiNew
    /\ pc = "idle"
    /\ vi = 0
    /\ panicked = FALSE
    /\ savefile = NoFile
    /\ mutex = Unlocked
    /\ task = NoTasks
    /\ ncmd = 0

\* Economy::update_cargo_prices
MarketPrices ==
    /\ ncmd < MaxPricings
    /\ economy' = update_cargo_prices(economy)
    /\ ncmd' = ncmd + 1
    /\ UNCHANGED <<world, player, ui, pc, vi, panicked, savefile, mutex, task>>

NextMarket == MarketPrices

SpecMarket == InitMarket /\ [][NextMarket]_vars

\* C8: after a market update, the price_multiplier m of every kind lies in
\* [1/2, 3/2]; it is demand / supply when supply > 0 and that ratio lies in
\* the interval, 3/2 when the ratio is above 3/2 or supply is 0, and 1/2 when
\* the ratio is below 1/2
C8_MultiplierClamped ==
    ncmd > 0 =>
        \A c \in CargoType :
            LET supply == economy.supply_demand[c].supply
                demand == economy.supply_demand[c].demand
                m == economy.supply_demand[c].price_multiplier
            IN /\ m[2] > 0
               /\ 2 * m[1] >= m[2]
               /\ 2 * m[1] <= 3 * m[2]
               /\ (supply = 0 \/ 2 * demand > 3 * supply) => 2 * m[1] = 3 * m[2]
               /\ (supply > 0 /\ 2 * demand < supply) => 2 * m[1] = m[2]
               /\ (supply > 0 /\ 2 * demand >= supply /\ 2 * demand <= 3 * supply)
                     => m[1] * supply = demand * m[2]

\* prices were updated for a market with a kind without supply, a kind
\* without demand and a kind whose ratio is inside the interval and is not 1
C8_Witness ==
    /\ ncmd > 0
    /\ economy.supply_demand["Coal"].supply = 0
    /\ economy.supply_demand["Steel"].supply = 100
    /\ economy.supply_demand["Steel"].demand = 0
    /\ economy.supply_demand["Goods"].supply = 100
    /\ economy.supply_demand["Goods"].demand = 120
    /\ economy.supply_demand["Goods"].price_multiplier = <<120, 100>>

----------------------------------------------------------------------------
(* Persistence: the game with InputEvent::Save and InputEvent::Load, for a  *)
(* player who runs a truck.                                                 *)

\* saves and loads in a behaviour
MaxSaves == 1

MaxLoads == 1

SaveVehicleOrders == {"GoToLocation", "Stop"}

SavePurchaseTypes == {"SmallTruck"}

\* the free tile and the tile of the coal mine
SavePositions == { <<x, 0>> : x \in Width - 2 .. Width - 1 }

SaveSelect == SelectAt(SavePositions)

SaveVehicleOrder == VehicleOrderOf(SaveVehicleOrders)

SaveVehiclePurchase == VehiclePurchaseOf(SavePurchaseTypes, SavePositions)

\* InputEvent::Save: save_game writes GameSave::from_game to the file
Save ==
    /\ Ready
    /\ savefile.saves < MaxSaves
    /\ savefile' = [present |-> TRUE, saves |-> savefile.saves + 1,
                    loads |-> savefile.loads, wellformed |-> TRUE,
                    data |-> from_game(Game), origin |-> Game]
    /\ UNCHANGED <<world, economy, player, ui, pc, vi, panicked, ncmd, mutex, task>>

\* InputEvent::Load
Load ==
    /\ Ready
    /\ savefile.loads < MaxLoads
    /\ SetGame(load_into(Game, savefile))
    /\ savefile' = [savefile EXCEPT !.loads = @ + 1]
    /\ UNCHANGED <<pc, vi, panicked, ncmd, mutex, task>>

NextSave ==
    \/ SaveSelect
    \/ SaveVehicleOrder
    \/ SaveVehiclePurchase
    \/ TickBegin
    \/ VehicleStep
    \/ TickEnd
    \/ Save
    \/ Load

SpecSave == Init /\ [][NextSave]_vars

----------------------------------------------------------------------------
(* Properties of persistence, checked under SpecSave *)

\* a step that loads the file written before
IsLoadStep == savefile.present /\ savefile'.loads > savefile.loads

\* a vehicle in state Moving with a path of its own
MidPath(v) == v.state.tag = "Moving" /\ v.current_path # <<>>

\* C6: loading a saved game that held a vehicle in state Moving with a
\* non-empty current_path yields that vehicle with the position, the state
\* (from, to, progress), the route, the route_index, the current_path and
\* the path_index it had when the game was saved
C6_MidPathVehicleRoundTrips ==
    [][ IsLoadStep =>
          \A i \in DOMAIN savefile.origin.player.vehicles :
              LET v == savefile.origin.player.vehicles[i]
              IN MidPath(v) =>
                    /\ i \in DOMAIN player'.vehicles
                    /\ player'.vehicles[i].x = v.x
                    /\ player'.vehicles[i].y = v.y
                    /\ player'.vehicles[i].state = v.state
                    /\ player'.vehicles[i].route = v.route
                    /\ player'.vehicles[i].route_index = v.route_index
                    /\ player'.vehicles[i].current_path = v.current_path
                    /\ player'.vehicles[i].path_index = v.path_index ]_vars

\* a game saved after its first tick, with a truck on the first step of a
\* path of two tiles, has been loaded
C6_Witness ==
    /\ savefile.present
    /\ savefile.loads > 0
    /\ \E i \in DOMAIN savefile.origin.player.vehicles :
          /\ MidPath(savefile.origin.player.vehicles[i])
          /\ player.vehicles[i].path_index = 1
          /\ Len(player.vehicles[i].current_path) = 2
          /\ player.vehicles[i].state.progress = 0
    /\ player.game_time = 1

\* C7: loading a saved game restores every field of the data model as it
\* was when the game was saved: the holds of the vehicles, the buffers of
\* the stations, the demand and supply of the towns, the stockpiles of the
\* industries, the shapes of the tracks, and the price, supply, demand and
\* price_multiplier of every kind on the market
C7_RoundTripLosesNothing ==
    [][ IsLoadStep =>
          LET saved == savefile.origin
          IN /\ \A i \in DOMAIN saved.player.vehicles :
                   /\ i \in DOMAIN player'.vehicles
                   /\ player'.vehicles[i].cargo = saved.player.vehicles[i].cargo
             /\ \A c \in DOMAIN saved.world.tiles :
                   LET was == saved.world.tiles[c].content
                       is == world'.tiles[c].content
                   IN /\ is.kind = was.kind
                      /\ was.kind = "Station" => is.cargo_waiting = was.cargo_waiting
                      /\ was.kind = "Town" =>
                            /\ is.cargo_demand = was.cargo_demand
                            /\ is.cargo_supply = was.cargo_supply
                      /\ was.kind = "Industry" => is.stockpile = was.stockpile
                      /\ was.kind = "Track" => is.track = was.track
             /\ economy'.cargo_prices = saved.economy.cargo_prices
             /\ economy'.supply_demand = saved.economy.supply_demand ]_vars

----------------------------------------------------------------------------
(* The web server: the game update loop of run_server and the request       *)
(* handlers run as tasks that share the game behind one Mutex.  A task      *)
(* takes the guard, works on the game and drops the guard.  The update of   *)
(* the loop is the tick of the main specification, step by step; the        *)
(* handler of a vehicle order writes selected_vehicle_id and then calls     *)
(* process_input_event.  A panic of the holder poisons the Mutex, and       *)
(* lock().unwrap() of every later task panics.                              *)

\* requests a behaviour may send
MaxRequests == 3

\* the handler tasks that run at the same time
Handlers == {"h1", "h2"}

\* the requests: POST /api/vehicle/:id/order?action=go_to,
\* POST /api/purchase/small_plane?x=1&y=0, POST /api/action?action=select&x=2&y=0
Requests ==
    { [kind |-> "vehicle_order", id |-> i, order |-> "GoToLocation"] :
          i \in 0 .. 1 }
    \cup { [kind |-> "purchase_vehicle", vehicle_type |-> "SmallPlane",
            pos |-> <<Width - 2, 0>>] }
    \cup { [kind |-> "perform_action", pos |-> <<Width - 1, 0>>] }

\* a lock that does not wait for the holder
AcquirableAlways(m) == TRUE

\* Mutex::lock returns when no task holds the guard
Acquirable(m) == m.holder = "none"

\* lock().unwrap() of task t: the guard, or a panic on a poisoned Mutex
LockUnwrap(t, at) ==
    /\ Acquirable(mutex)
    /\ IF mutex.poisoned
       THEN /\ task' = [task EXCEPT ![t] = [at |-> "dead"]]
            /\ UNCHANGED mutex
       ELSE /\ mutex' = [mutex EXCEPT !.holder = t]
            /\ task' = [task EXCEPT ![t] = at]

\* the guard goes out of scope
DropGuard == mutex' = [mutex EXCEPT !.holder = "none"]

InitServer ==
    /\ world = MainWorld
    /\ economy = EconomyNew
    /\ player = PlayerNew("Player", StartingMoney)
    /\ ui = UiNew
    /\ pc = "idle"
    /\ vi = 0
    /\ panicked = FALSE
    /\ savefile = NoFile
    /\ ncmd = 0
    /\ mutex = Unlocked
    /\ task = [t \in Handlers \cup {"loop"} |-> [at |-> "idle"]]

\* interval.tick().await has returned; game_clone.lock().unwrap()
LoopLock ==
    /\ task["loop"].at = "idle"
    /\ TickAllowed
    /\ LockUnwrap("loop", [at |-> "update", since |-> player.game_time])
    /\ UNCHANGED <<world, economy, player, ui, pc, vi, panicked, savefile, ncmd>>

\* game_guard.update(), step by step
LoopUpdate ==
    /\ mutex.holder = "loop"
    /\ task["loop"].at = "update"
    /\ \/ player.game_time = task["loop"].since /\ TickBegin
       \/ VehicleStep
       \/ TickEnd

\* the update has returned: the guard of the update is dropped
LoopUnlock ==
    /\ mutex.holder = "loop"
    /\ task["loop"].at = "update"
    /\ pc = "idle"
    /\ player.game_time > task["loop"].since
    /\ DropGuard
    /\ task' = [task EXCEPT !["loop"] = [at |-> "render_lock"]]
    /\ UNCHANGED <<world, economy, player, ui, pc, vi, panicked, savefile, ncmd>>

\* the update has panicked: unwinding drops the guard and poisons the Mutex
LoopPanic ==
    /\ mutex.holder = "loop"
    /\ panicked
    /\ mutex' = [holder |-> "none", poisoned |-> TRUE]
    /\ task' = [task EXCEPT !["loop"] = [at |-> "dead"]]
    /\ UNCHANGED <<world, economy, player, ui, pc, vi, panicked, savefile, ncmd>>

\* game_clone.lock().unwrap() for get_render_data
LoopRenderLock ==
    /\ task["loop"].at = "render_lock"
    /\ LockUnwrap("loop", [at |-> "render"])
    /\ UNCHANGED <<world, economy, player, ui, pc, vi, panicked, savefile, ncmd>>

\* get_render_data has returned; the data is sent and the loop waits
LoopRenderUnlock ==
    /\ mutex.holder = "loop"
    /\ task["loop"].at = "render"
    /\ DropGuard
    /\ task' = [task EXCEPT !["loop"] = [at |-> "idle"]]
    /\ UNCHANGED <<world, economy, player, ui, pc, vi, panicked, savefile, ncmd>>

\* a request arrives at a handler
Receive(h) ==
    /\ task[h].at = "idle"
    /\ ncmd < MaxRequests
    /\ \E r \in Requests :
          task' = [task EXCEPT ![h] = [at |-> "lock", request |-> r]]
    /\ ncmd' = ncmd + 1
    /\ UNCHANGED <<world, economy, player, ui, pc, vi, panicked, savefile, mutex>>

\* state.game.lock().unwrap() of a handler; seen is the game it finds
HandlerLock(h) ==
    /\ task[h].at = "lock"
    /\ LockUnwrap(h, [at |-> IF task[h].request.kind = "vehicle_order"
                             THEN "select" ELSE "apply",
                      request |-> task[h].request, seen |-> Game])
    /\ UNCHANGED <<world, economy, player, ui, pc, vi, panicked, savefile, ncmd>>

\* vehicle_order: game_guard.selected_vehicle_id = Some(id)
HandlerSelectVehicle(h) ==
    /\ mutex.holder = h
    /\ task[h].at = "select"
    /\ ui' = [ui EXCEPT !.selected_vehicle_id = Some(task[h].request.id)]
    /\ task' = [task EXCEPT ![h].at = "apply"]
    /\ UNCHANGED <<world, economy, player, pc, vi, panicked, savefile, ncmd, mutex>>

\* the InputEvent and the cursor position a handler passes
InputOf(r) ==
    CASE r.kind = "vehicle_order" -> [kind |-> "VehicleOrder", order |-> r.order]
      [] r.kind = "purchase_vehicle" ->
            [kind |-> "VehiclePurchase", vehicle_type |-> r.vehicle_type]
      [] r.kind = "perform_action" -> [kind |-> "Select"]

CursorOf(g, r) ==
    IF r.kind = "vehicle_order" THEN <<g.ui.cursor_x, g.ui.cursor_y>> ELSE r.pos

\* what a handler does to the game g when nothing else runs
WholeCommand(g, r) ==
    LET selected == IF r.kind = "vehicle_order"
                    THEN [g EXCEPT !.ui.selected_vehicle_id = Some(r.id)]
                    ELSE g
    IN process_input_event(selected, InputOf(r), CursorOf(selected, r))

\* game_guard.process_input_event(input_event, cursor_pos)
HandlerApply(h) ==
    /\ mutex.holder = h
    /\ task[h].at = "apply"
    /\ SetGame(process_input_event(Game, InputOf(task[h].request),
                                   CursorOf(Game, task[h].request)))
    /\ task' = [task EXCEPT ![h].at = "respond"]
    /\ UNCHANGED <<pc, vi, panicked, savefile, ncmd, mutex>>

\* the handler returns its response: the guard is dropped
HandlerUnlock(h) ==
    /\ mutex.holder = h
    /\ task[h].at = "respond"
    /\ DropGuard
    /\ task' = [task EXCEPT ![h] = [at |-> "idle"]]
    /\ UNCHANGED <<world, economy, player, ui, pc, vi, panicked, savefile, ncmd>>

Handler ==
    \E h \in Handlers :
        \/ Receive(h)
        \/ HandlerLock(h)
        \/ HandlerSelectVehicle(h)
        \/ HandlerApply(h)
        \/ HandlerUnlock(h)

NextServer ==
    \/ LoopLock
    \/ LoopUpdate
    \/ LoopUnlock
    \/ LoopPanic
    \/ LoopRenderLock
    \/ LoopRenderUnlock
    \/ Handler

SpecServer == InitServer /\ [][NextServer]_vars

\* the tasks that are between taking the guard and dropping it
InCriticalSection ==
    { t \in DOMAIN task : task[t].at \in {"update", "render", "select", "apply", "respond"} }

\* C12: the tick and every command run under the game mutex: the tasks
\* between lock and drop are at most the holder, a tick in progress belongs to
\* the loop with the guard held, every step that changes the game is taken by
\* the holder, and a handler that is done has left the game as its whole
\* command turns the game it found at its lock
C12_TicksAndCommandsExclude ==
    /\ [](/\ InCriticalSection \subseteq {mutex.holder}
          /\ (pc # "idle" /\ ~panicked)
                => (mutex.holder = "loop" /\ task["loop"].at = "update")
          /\ \A h \in Handlers :
                task[h].at = "respond" => Game = WholeCommand(task[h].seen, task[h].request))
    /\ [][ Game' # Game =>
             /\ mutex.holder # "none"
             /\ \A t \in DOMAIN task : task'[t] # task[t] => t = mutex.holder
             /\ IsTickStep => mutex.holder = "loop" ]_vars

\* after a tick a handler has applied a vehicle order that changed the game
\* and still holds the guard, while the other handler waits for it
C12_Witness ==
    /\ \E h \in Handlers :
          /\ task[h].at = "respond"
          /\ task[h].request.kind = "vehicle_order"
          /\ task[h].seen.player.game_time > 0
          /\ Game # task[h].seen
    /\ \E h \in Handlers : task[h].at = "lock"

\* C39: from the return of the loop's update to the return of its
\* get_render_data no step changes the game, so the data the loop sends is
\* the game as the update left it
C39_SnapshotIsTickState ==
    [][ task["loop"].at \in {"render_lock", "render"} => Game' = Game ]_vars

\* the part of C39 that holds: while the loop holds the guard it took for
\* get_render_data no step changes the game
C39_CaptureUnderGuard ==
    [][ task["loop"].at = "render" => Game' = Game ]_vars

\* the loop renders a game that is not the one its update left: a handler
\* that took the guard after the update has applied a purchase
C39_CommandBeforeCapture ==
    /\ task["loop"].at = "render"
    /\ player.game_time = 1
    /\ Len(player.vehicles) = 1
    /\ player.vehicles[1].age = 0

----------------------------------------------------------------------------
(* A vehicle on a route: the game after the player has built a train        *)
(* station on the free tile, bought a train there and given it a route of   *)
(* two waypoints, both the station.  From there the player sends vehicle    *)
(* orders, selects and finishes routes while the ticks run.                 *)

\* the commands that lead to the game with the route, in their order
RouteSetup ==
    << <<[kind |-> "BuildAction", build_action |-> "BuildTrainStation"], <<Width - 2, 0>> >>,
       <<[kind |-> "Select"], <<Width - 2, 0>> >>,
       <<[kind |-> "VehiclePurchase", vehicle_type |-> "Train"], <<Width - 2, 0>> >>,
       <<[kind |-> "Select"], <<Width - 2, 0>> >>,
       <<[kind |-> "VehicleOrder", order |-> "CreateRoute"], <<Width - 2, 0>> >>,
       <<[kind |-> "Select"], <<Width - 2, 0>> >>,
       <<[kind |-> "Select"], <<Width - 2, 0>> >>,
       <<[kind |-> "FinishRouteCreation"], <<Width - 2, 0>> >> >>

\* the game after the first n of the commands cmds
RECURSIVE AfterCommands(_, _, _)
AfterCommands(g, cmds, n) ==
    IF n = 0 THEN g
    ELSE process_input_event(AfterCommands(g, cmds, n - 1), cmds[n][1], cmds[n][2])

RouteGame == AfterCommands(GameNew(MainWorld), RouteSetup, Len(RouteSetup))

InitRoute ==
    /\ world = RouteGame.world
    /\ economy = RouteGame.economy
    /\ player = RouteGame.player
    /\ ui = RouteGame.ui
    /\ pc = "idle"
    /\ vi = 0
    /\ panicked = FALSE
    /\ savefile = NoFile
    /\ mutex = Unlocked
    /\ task = NoTasks
    /\ ncmd = 0

NextRoute ==
    \/ Select
    \/ VehicleOrder
    \/ FinishRouteCreation
    \/ TickBegin
    \/ VehicleStep
    \/ TickEnd

SpecRoute == InitRoute /\ [][NextRoute]_vars

\* C13: the update of a vehicle in state Loading completes, leaves it Idle
\* and sets route_index to (route_index + 1) modulo the length of the route;
\* in every state a vehicle with a non-empty route has route_index below the
\* length of the route
C13_LoadingAdvancesRouteIndex ==
    /\ [](\A i \in DOMAIN player.vehicles :
            player.vehicles[i].route # <<>>
                => player.vehicles[i].route_index < Len(player.vehicles[i].route))
    /\ [][ (IsVehicleStep /\ player.vehicles[vi].state.tag = "Loading")
           => LET v == player.vehicles[vi]
                  after == player'.vehicles[vi]
              IN /\ ~panicked'
                 /\ v.route # <<>>
                 /\ after.state.tag = "Idle"
                 /\ after.route = v.route
                 /\ after.route_index = (v.route_index + 1) % Len(v.route) ]_vars

\* with no command since the route was assigned, the train has loaded at
\* both waypoints of its route and route_index is back at 0
C13_Witness ==
    /\ ncmd = 0
    /\ pc = "vehicles"
    /\ vi > 1
    /\ player.vehicles[1].age = 4
    /\ player.vehicles[1].state.tag = "Idle"
    /\ Len(player.vehicles[1].route) = 2
    /\ player.vehicles[1].route_index = 0

\* a town within two tiles of a vehicle
TownInRange(v) ==
    \E c \in DOMAIN world.tiles :
        world.tiles[c].content.kind = "Town" /\ Visits(v, world, c) > 0

\* what holds of the code: no vehicle is ever in state Unloading
NeverUnloading ==
    \A i \in DOMAIN player.vehicles : player.vehicles[i].state.tag # "Unloading"

\* C15: a vehicle that holds cargo and follows its route enters state
\* Unloading, and the update of a vehicle in state Unloading empties its hold
\* and, with a town in range and cargo in the hold, raises its
\* total_deliveries and its profit.  Cargo enters the hold in the update of
\* state Loading only, so on a route of one waypoint, where every visit
\* completes a round, a vehicle that went through Unloading since its last
\* visit comes to load with an empty hold
C15_CargoIsUnloaded ==
    [][ /\ (/\ IsVehicleStep
            /\ player.vehicles[vi].state.tag = "Loading"
            /\ Len(player.vehicles[vi].route) = 1)
           => MapSum(player.vehicles[vi].cargo) = 0
        /\ (IsVehicleStep /\ player.vehicles[vi].state.tag = "Unloading")
           => LET v == player.vehicles[vi]
                  after == player'.vehicles[vi]
              IN /\ MapSum(after.cargo) = 0
                 /\ (TownInRange(v) /\ MapSum(v.cargo) > 0)
                       => /\ after.total_deliveries > v.total_deliveries
                          /\ after.profit > v.profit ]_vars

----------------------------------------------------------------------------
(* Loading from a file that may be missing or damaged: the player buys     *)
(* vehicles, saves and loads while the ticks run, and the file can be       *)
(* damaged on disk between a save and a load.                               *)

\* something outside the game overwrites savegame.json with text that does
\* not parse
Damage ==
    /\ savefile.present
    /\ savefile.wellformed
    /\ savefile' = [savefile EXCEPT !.wellformed = FALSE]
    /\ UNCHANGED <<world, economy, player, ui, pc, vi, panicked, ncmd, mutex, task>>

NextLoad ==
    \/ SaveVehiclePurchase
    \/ TickBegin
    \/ VehicleStep
    \/ TickEnd
    \/ Save
    \/ Damage
    \/ Load

SpecLoad == Init /\ [][NextLoad]_vars

\* a Load command whose load_game fails
IsFailedLoad == savefile'.loads > savefile.loads /\ ~load_from_file(savefile).some

\* C18: a Load command that fails, the file missing or malformed, leaves the
\* world, the economy and the player as they were
C18_FailedLoadChangesNothing ==
    [][ IsFailedLoad =>
          /\ world' = world
          /\ economy' = economy
          /\ player' = player ]_vars

\* a load has failed on a damaged file whose content differs from the game
\* in world, economy and player
C18_Witness ==
    /\ savefile.loads > 0
    /\ savefile.present
    /\ ~savefile.wellformed
    /\ player.vehicles # <<>>
    /\ player # to_game(savefile.data).player
    /\ world # to_game(savefile.data).world
    /\ economy # to_game(savefile.data).economy

----------------------------------------------------------------------------
(* Two trains of one player at one station: the second train is bought     *)
(* where the first stands and is given the same route through the vehicle   *)
(* order request that names its id.                                         *)

FleetGame ==
    LET pos == <<Width - 2, 0>>
        two == process_input_event(RouteGame,
                   [kind |-> "VehiclePurchase", vehicle_type |-> "Train"], pos)
        ordered == process_input_event(
                       [two EXCEPT !.ui.selected_vehicle_id = Some(1)],
                       [kind |-> "VehicleOrder", order |-> "CreateRoute"], pos)
        routed == process_input_event(
                      process_input_event(ordered, [kind |-> "Select"], pos),
                      [kind |-> "Select"], pos)
    IN process_input_event(routed, [kind |-> "FinishRouteCreation"], pos)

InitFleet ==
    /\ world = FleetGame.world
    /\ economy = FleetGame.economy
    /\ player = FleetGame.player
    /\ ui = FleetGame.ui
    /\ pc = "idle"
    /\ vi = 0
    /\ panicked = FALSE
    /\ savefile = NoFile
    /\ mutex = Unlocked
    /\ task = NoTasks
    /\ ncmd = 0

NextFleet ==
    \/ VehicleOrder
    \/ TickBegin
    \/ VehicleStep
    \/ TickEnd

SpecFleet == InitFleet /\ [][NextFleet]_vars

\* C22: the first step of a tick is the world update followed by the market
\* update over the updated world, with no vehicle touched; the vehicles are
\* then updated one at a time in ascending order of id, each seeing the
\* world as the steps before it left it, so a loading vehicle takes from
\* what this tick's diffusion and the lower ids left at its station
C22_WorldThenMarketThenVehiclesById ==
    /\ [][(pc = "idle" /\ pc' = "vehicles") =>
             /\ world' = WorldUpdate(world)
             /\ economy' \in EconomyUpdate(economy, WorldUpdate(world))
             /\ player'.vehicles = player.vehicles
             /\ vi' = 1]_vars
    /\ [][IsVehicleStep =>
             LET v == player.vehicles[vi]
                 after == player'.vehicles[vi]
             IN /\ v.id = vi - 1
                /\ \A j \in 1 .. vi - 1 : player.vehicles[j].id < v.id
                /\ \A j \in DOMAIN player.vehicles \ {vi} :
                       player'.vehicles[j] = player.vehicles[j]
                /\ economy' = economy
                /\ ~panicked' => vi' = vi + 1
                /\ (v.state.tag = "Loading" /\ OnStation(v)) =>
                       /\ MapSum(after.cargo) - MapSum(v.cargo)
                              = Min(get_capacity(v) - MapSum(v.cargo),
                                    MapSum(world.tiles[<<v.x, v.y>>].content.cargo_waiting))
                       /\ MapSum(world'.tiles[<<v.x, v.y>>].content.cargo_waiting)
                              = MapSum(world.tiles[<<v.x, v.y>>].content.cargo_waiting)
                                - (MapSum(after.cargo) - MapSum(v.cargo))]_vars

\* reached: within one tick the train with id 0 has filled its hold from
\* the station, and the train with id 1, in state Loading at the same station
\* with an empty hold, finds less left than its hold would take
C22_Witness ==
    /\ pc = "vehicles"
    /\ vi = 2
    /\ Len(player.vehicles) = 2
    /\ LET first == player.vehicles[1]
           second == player.vehicles[2]
           left == MapSum(world.tiles[<<first.x, first.y>>].content.cargo_waiting)
       IN /\ first.id = 0 /\ second.id = 1
          /\ <<first.x, first.y>> = <<second.x, second.y>>
          /\ OnStation(first)
          /\ first.state.tag = "Idle"
          /\ MapSum(first.cargo) = get_capacity(first)
          /\ second.state.tag = "Loading"
          /\ MapSum(second.cargo) = 0
          /\ left > 0
          /\ left < get_capacity(second)

----------------------------------------------------------------------------
(* Pathfinding on its own: a desert grid whose industry draws all fall on   *)
(* the first tile, on which the player builds tracks and stations, buys one *)
(* vehicle and gives it a route to a tile of the grid.  The ticks then run  *)
(* the search from the vehicle's tile to its waypoint.                      *)

GridWidth == 3

GridHeight == 2

GridBase ==
    WorldNew(GridWidth, GridHeight,
        [c \in Coords(GridWidth, GridHeight) |-> "Desert"],
        [c \in Coords(GridWidth, GridHeight) |-> 0],
        [i \in 1 .. TownAttempts |->
            [x |-> 0, y |-> 0, population |-> 500, growth_rate |-> 10]],
        [i \in 1 .. IndustryAttempts |->
            [x |-> 0, y |-> 0, industry_type |-> "CoalMine", production_rate |-> 100]])

\* the tiles of a grid in the order the player builds on them
TileAt(w, i) == <<(i - 1) % w.width, (i - 1) \div w.width>>

\* the game after the build commands of a plan for the first n tiles:
\* plan[c] is the build action the player takes at tile c, or "None"
RECURSIVE Built(_, _, _)
Built(g, plan, n) ==
    IF n = 0 THEN g
    ELSE LET prev == Built(g, plan, n - 1)
             c == TileAt(g.world, n)
         IN IF c \in DOMAIN plan /\ plan[c] # "None"
            THEN process_input_event(
                     process_input_event(prev,
                         [kind |-> "BuildAction", build_action |-> plan[c]], c),
                     [kind |-> "Select"], c)
            ELSE prev

\* the commands that buy a vehicle at start and give it the route goal, goal
Trip(vehicle_type, start, goal) ==
    << <<[kind |-> "VehiclePurchase", vehicle_type |-> vehicle_type], start>>,
       <<[kind |-> "Select"], start>>,
       <<[kind |-> "VehicleOrder", order |-> "CreateRoute"], start>>,
       <<[kind |-> "Select"], goal>>,
       <<[kind |-> "Select"], goal>>,
       <<[kind |-> "FinishRouteCreation"], goal>> >>

RailPlans ==
    [Coords(GridWidth, GridHeight) \ {<<0, 0>>}
        -> {"None", "BuildRailTrack", "BuildTrainStation"}]

RailGame(plan, start, goal) ==
    AfterCommands(Built(GameNew(GridBase), plan, GridWidth * GridHeight),
                  Trip("Train", start, goal), Len(Trip("Train", start, goal)))

InitRail ==
    /\ \E plan \in RailPlans, start \in Coords(GridWidth, GridHeight),
          goal \in Coords(GridWidth, GridHeight) :
          /\ world = RailGame(plan, start, goal).world
          /\ economy = RailGame(plan, start, goal).economy
          /\ player = RailGame(plan, start, goal).player
          /\ ui = RailGame(plan, start, goal).ui
    /\ pc = "idle"
    /\ vi = 0
    /\ panicked = FALSE
    /\ savefile = NoFile
    /\ mutex = Unlocked
    /\ task = NoTasks
    /\ ncmd = 0

NextRail ==
    \/ TickBegin
    \/ VehicleStep
    \/ TickEnd

SpecRail == InitRail /\ [][NextRail]_vars

\* two tiles that share an edge
Near(a, b) ==
    (IF a[1] > b[1] THEN a[1] - b[1] ELSE b[1] - a[1])
    + (IF a[2] > b[2] THEN a[2] - b[2] ELSE b[2] - a[2]) = 1

\* the tiles of the grid that carry a train
RailTiles(w) ==
    { c \in DOMAIN w.tiles : w.tiles[c].content.kind \in {"Track", "Station"} }

\* the tiles that at most n hops over the tiles of ok lead to from start
RECURSIVE Within(_, _, _)
Within(ok, start, n) ==
    IF n = 0 THEN {start}
    ELSE LET prev == Within(ok, start, n - 1)
         IN prev \cup { c \in ok : \E p \in prev : Near(p, c) }

\* the least number of hops over the tiles of ok from start to goal
MinHops(ok, start, goal) ==
    CHOOSE n \in 0 .. Cardinality(ok) :
        /\ goal \in Within(ok, start, n)
        /\ n > 0 => goal \notin Within(ok, start, n - 1)

\* a path from start to goal: hops between tiles that share an edge, over
\* tiles of ok after the first
IsPath(path, ok, start, goal) ==
    /\ Len(path) >= 1
    /\ path[1] = start
    /\ path[Len(path)] = goal
    /\ \A i \in 1 .. Len(path) - 1 : Near(path[i], path[i + 1])
    /\ \A i \in 2 .. Len(path) : path[i] \in ok

\* C24: from the tile of a train to its waypoint, find_train_path returns a
\* path exactly when hops over tiles with a track or a station lead there;
\* the path starts at the train's tile, ends at the waypoint, hops between
\* tiles that share an edge, runs over tracks and stations after the first
\* tile, and no such path has fewer hops
C24_TrainPathIsShortestRail ==
    \A i \in DOMAIN player.vehicles :
        LET v == player.vehicles[i]
            start == <<v.x, v.y>>
            goal == v.route[v.route_index + 1]
            found == find_train_path(world, start, goal)
            ok == RailTiles(world)
        IN (v.vehicle_type.class = "Train" /\ v.route # <<>>) =>
              /\ found.some <=> goal \in Within(ok, start, Cardinality(ok))
              /\ found.some =>
                    /\ IsPath(found.value, ok, start, goal)
                    /\ Len(found.value) - 1 = MinHops(ok, start, goal)

\* reached: with rails on every free tile the train at (0,1) has set out
\* for (1,0) on the path of two hops that the search returned, where four
\* hops around the loop of rails lead there too
C24_Witness ==
    /\ player.vehicles # <<>>
    /\ LET v == player.vehicles[1]
       IN /\ v.state.tag = "Moving"
          /\ v.route[v.route_index + 1] = <<1, 0>>
          /\ Len(v.current_path) = 3
          /\ v.current_path[1] = <<0, 1>>
          /\ v.current_path = find_train_path(world, <<0, 1>>, <<1, 0>>).value
          /\ RailTiles(world) = DOMAIN world.tiles \ {<<0, 0>>}

----------------------------------------------------------------------------
(* Road pathfinding on its own: a grid of desert, water and mountain tiles  *)
(* on which the player builds roads, bus stops and tracks, buys a truck and *)
(* gives it a route to a tile of the grid.                                  *)

RoadWidth == 2

RoadHeight == 2

\* the terrains World::generate_terrain may draw; the first tile, where the
\* industry draws fall, is desert
RoadTerrains ==
    { t \in [Coords(RoadWidth, RoadHeight) -> {"Desert", "Water", "Mountain"}] :
        t[<<0, 0>>] = "Desert" }

RoadBase(terrain) ==
    WorldNew(RoadWidth, RoadHeight, terrain,
        [c \in Coords(RoadWidth, RoadHeight) |-> 0],
        [i \in 1 .. TownAttempts |->
            [x |-> 0, y |-> 0, population |-> 500, growth_rate |-> 10]],
        [i \in 1 .. IndustryAttempts |->
            [x |-> 0, y |-> 0, industry_type |-> "CoalMine", production_rate |-> 100]])

RoadPlans ==
    [Coords(RoadWidth, RoadHeight) \ {<<0, 0>>}
        -> {"None", "BuildRoad", "BuildBusStop", "BuildRailTrack"}]

RoadGame(terrain, plan, start, goal) ==
    AfterCommands(Built(GameNew(RoadBase(terrain)), plan, RoadWidth * RoadHeight),
                  Trip("SmallTruck", start, goal),
                  Len(Trip("SmallTruck", start, goal)))

\* the commands of the trip are counted
InitRoad ==
    /\ \E terrain \in RoadTerrains, plan \in RoadPlans,
          start \in Coords(RoadWidth, RoadHeight),
          goal \in Coords(RoadWidth, RoadHeight) :
          /\ world = RoadGame(terrain, plan, start, goal).world
          /\ economy = RoadGame(terrain, plan, start, goal).economy
          /\ player = RoadGame(terrain, plan, start, goal).player
          /\ ui = RoadGame(terrain, plan, start, goal).ui
          /\ ncmd = Len(Trip("SmallTruck", start, goal))
    /\ pc = "idle"
    /\ vi = 0
    /\ panicked = FALSE
    /\ savefile = NoFile
    /\ mutex = Unlocked
    /\ task = NoTasks

NextRoad ==
    \/ TickBegin
    \/ VehicleStep
    \/ TickEnd

SpecRoad == InitRoad /\ [][NextRoad]_vars

\* the tiles of the grid that carry a road vehicle
RoadTiles(w) ==
    { c \in DOMAIN w.tiles :
        /\ w.tiles[c].content.kind \in {"Road", "Station", "Empty"}
        /\ w.tiles[c].terrain \notin {"Water", "Mountain"} }

\* C25: from the tile of a road vehicle to its waypoint, find_road_path
\* returns a path exactly when hops over tiles with a road, a station or
\* nothing on terrain other than water and mountain lead there; the path
\* has the vehicle's tile first and the waypoint last, hops between tiles
\* that share an edge and runs over such tiles after the first; a vehicle
\* that enters Moving has path_index 1 and heads for the second tile of
\* the path
C25_RoadPathAndDeparture ==
    /\ [](\A i \in DOMAIN player.vehicles :
            LET v == player.vehicles[i]
                start == <<v.x, v.y>>
                goal == v.route[v.route_index + 1]
                found == find_road_path(world, start, goal)
                ok == RoadTiles(world)
            IN (v.vehicle_type.class = "Road" /\ v.route # <<>>) =>
                  /\ found.some <=> goal \in Within(ok, start, Cardinality(ok))
                  /\ found.some => IsPath(found.value, ok, start, goal))
    /\ [][ (/\ IsVehicleStep
            /\ player.vehicles[vi].vehicle_type.class = "Road"
            /\ player.vehicles[vi].state.tag = "Idle"
            /\ player'.vehicles[vi].state.tag = "Moving")
           => LET v == player.vehicles[vi]
                  after == player'.vehicles[vi]
              IN /\ after.current_path
                       = find_road_path(world, <<v.x, v.y>>,
                                        v.route[v.route_index + 1]).value
                 /\ after.path_index = 1
                 /\ after.state.to = after.current_path[2]
                 /\ after.current_path[1] = <<v.x, v.y>>
                 /\ <<after.x, after.y>> = <<v.x, v.y>> ]_vars

\* reached: the truck has set out on a path of two hops around a mountain
\* tile with a road on it, over a bus stop, away from a tile with a track
C25_Witness ==
    /\ player.vehicles # <<>>
    /\ LET v == player.vehicles[1]
       IN /\ v.state.tag = "Moving"
          /\ v.path_index = 1
          /\ Len(v.current_path) = 3
          /\ \E c \in DOMAIN world.tiles :
                /\ world.tiles[c].terrain = "Mountain"
                /\ world.tiles[c].content.kind = "Road"
          /\ ContentKind(world, v.current_path[2][1], v.current_path[2][2]) = "Station"

\* the tiles on which build_road or build_bus_stop succeeded
RoadBuilds(w) ==
    { c \in DOMAIN w.tiles :
        \/ w.tiles[c].content.kind = "Road"
        \/ /\ w.tiles[c].content.kind = "Station"
           /\ w.tiles[c].content.station_type = "Road" }

\* the tiles on which build_rail_track or build_train_station succeeded
RailBuilds(w) ==
    { c \in DOMAIN w.tiles :
        \/ w.tiles[c].content.kind = "Track"
        \/ /\ w.tiles[c].content.kind = "Station"
           /\ w.tiles[c].content.station_type = "Train" }

\* C37: the search of road vehicles steps from every adjacent tile onto
\* every tile with a road or a bus stop the player built, and the search of
\* trains steps from every adjacent tile onto every tile with a track or a
\* train station the player built
C37_BuildsAreTraversable ==
    /\ \A c \in RoadBuilds(world), p \in DOMAIN world.tiles :
          Near(p, c) => SeqContains(get_road_neighbors(world, p), c)
    /\ \A c \in RailBuilds(world), p \in DOMAIN world.tiles :
          Near(p, c) => SeqContains(get_train_neighbors(world, p), c)

\* the part of C37 about trains
C37_RailBuildsCarryTrains ==
    \A c \in RailBuilds(world), p \in DOMAIN world.tiles :
        Near(p, c) => SeqContains(get_train_neighbors(world, p), c)

\* the part of C37 about roads and bus stops, for tiles that are no mountain
C37_RoadBuildsOffMountains ==
    \A c \in RoadBuilds(world), p \in DOMAIN world.tiles :
        (Near(p, c) /\ world.tiles[c].terrain # "Mountain")
            => SeqContains(get_road_neighbors(world, p), c)

\* tracks and train stations stand on the grid of the trains, one of them
\* next to the other
C37_RailBuildsReached ==
    \E c, d \in RailBuilds(world) :
        /\ Near(c, d)
        /\ world.tiles[c].content.kind = "Track"
        /\ world.tiles[d].content.kind = "Station"

----------------------------------------------------------------------------
(* Unloading on its own.  No code path of the game puts a vehicle with      *)
(* cargo into VehicleState::Unloading; `state` and `cargo` are public       *)
(* fields of Vehicle, and the Unloading arm of Vehicle::update is applied   *)
(* here to vehicles drawn over them, at every tile of the main world.       *)

UnloadTypes == {"Train", "SmallTruck"}

UnloadCargos ==
    { [EmptyMap EXCEPT !["Food"] = food, !["Goods"] = goods] :
        food \in {0, 3, 50}, goods \in {0, 2} }

InitUnload ==
    /\ world = MainWorld
    /\ economy = EconomyNew
    /\ \E t \in UnloadTypes, pos \in Coords(Width, Height), cargo \in UnloadCargos :
          player = [PlayerNew("Player", StartingMoney) EXCEPT !.vehicles =
                       << [VehicleNew(0, create_vehicle_from_type(t), pos[1], pos[2])
                             EXCEPT !.state = StateOf("Unloading"),
                                    !.cargo = cargo] >>]
    /\ ui = UiNew
    /\ pc = "idle"
    /\ vi = 0
    /\ panicked = FALSE
    /\ savefile = NoFile
    /\ mutex = Unlocked
    /\ task = NoTasks
    /\ ncmd = 0

NextUnload ==
    \/ TickBegin
    \/ VehicleStep
    \/ TickEnd

SpecUnload == InitUnload /\ [][NextUnload]_vars

\* the towns within Chebyshev distance 2 of a vehicle
TownsInRange(v, w) ==
    { c \in DOMAIN w.tiles :
        /\ w.tiles[c].content.kind = "Town"
        /\ Max(IF c[1] > v.x THEN c[1] - v.x ELSE v.x - c[1],
               IF c[2] > v.y THEN c[2] - v.y ELSE v.y - c[2]) <= 2 }

----------------------------------------------------------------------------
(* Passenger diffusion on its own: a world of one row whose first tile is   *)
(* grass and carries the only town (the other town draws fall on desert,    *)
(* the industry draws on the town); the player builds stations on the       *)
(* desert tiles between ticks.                                              *)

TownWorld ==
    WorldNew(Width, Height,
        [c \in Coords(Width, Height) |-> IF c = <<0, 0>> THEN "Grass" ELSE "Desert"],
        [c \in Coords(Width, Height) |-> 0],
        [i \in 1 .. TownAttempts |->
            IF i = 1 THEN [x |-> 0, y |-> 0, population |-> 4000, growth_rate |-> 100]
            ELSE [x |-> Width - 1, y |-> 0, population |-> 500, growth_rate |-> 10]],
        [i \in 1 .. IndustryAttempts |->
            [x |-> 0, y |-> 0, industry_type |-> "CoalMine", production_rate |-> 100]])

InitTown ==
    /\ world = TownWorld
    /\ economy = EconomyNew
    /\ player = PlayerNew("Player", StartingMoney)
    /\ ui = UiNew
    /\ pc = "idle"
    /\ vi = 0
    /\ panicked = FALSE
    /\ savefile = NoFile
    /\ mutex = Unlocked
    /\ task = NoTasks
    /\ ncmd = 0

\* Game::build_bus_stop between two ticks
WorldBuildBusStop ==
    \E c \in Coords(Width, Height) :
        /\ pc = "idle"
        /\ build_bus_stop(Game, c[1], c[2])[2]
        /\ SetGame(build_bus_stop(Game, c[1], c[2])[1])
        /\ UNCHANGED <<pc, vi, panicked, savefile, ncmd, mutex, task>>

NextTown ==
    \/ WorldGrow
    \/ WorldDiffuse
    \/ WorldTickRest
    \/ WorldBuildStation
    \/ WorldBuildBusStop

SpecTown == InitTown /\ [][NextTown]_vars

\* the stations within Chebyshev distance 2 of a tile, and the one the scan
\* by column and then by row finds first
StationsNear(w, c) ==
    Window(w, c[1], c[2], 2) \cap TilesOfKind(w, "Station")

FirstStationNear(w, c) ==
    CHOOSE s \in StationsNear(w, c) :
        \A o \in StationsNear(w, c) :
            s[1] < o[1] \/ (s[1] = o[1] /\ s[2] <= o[2])

\* what station s receives from the towns whose first station it is
ReceivedFromTowns(w, s) ==
    LET senders == { t \in TilesOfKind(w, "Town") :
                       StationsNear(w, t) # {} /\ FirstStationNear(w, t) = s }
    IN SumOver([t \in senders |-> w.tiles[t].content.cargo_supply["Passengers"] \div 2],
               senders)

\* C29: in the diffusion step a town with stations within Chebyshev
\* distance 2 puts half of its passenger supply, rounded down, at the first
\* of them and at no other, however many are in range, and its supply
\* falls by what that station received
C29_TownFeedsFirstStationOnly ==
    [][ IsDiffuseStep =>
          /\ \A s \in TilesOfKind(world, "Station") :
                world'.tiles[s].content.cargo_waiting["Passengers"]
                    = world.tiles[s].content.cargo_waiting["Passengers"]
                      + ReceivedFromTowns(world, s)
          /\ \A t \in TilesOfKind(world, "Town") :
                StationsNear(world, t) # {} =>
                    world'.tiles[t].content.cargo_supply["Passengers"]
                        = world.tiles[t].content.cargo_supply["Passengers"]
                          - world.tiles[t].content.cargo_supply["Passengers"] \div 2 ]_vars

\* the same in the worlds that hold exactly one station
C29_WithOneStation ==
    [][ (IsDiffuseStep /\ Cardinality(TilesOfKind(world, "Station")) = 1) =>
          /\ \A s \in TilesOfKind(world, "Station") :
                world'.tiles[s].content.cargo_waiting["Passengers"]
                    = world.tiles[s].content.cargo_waiting["Passengers"]
                      + ReceivedFromTowns(world, s)
          /\ \A t \in TilesOfKind(world, "Town") :
                world'.tiles[t].content.cargo_supply["Passengers"]
                    = world.tiles[t].content.cargo_supply["Passengers"]
                      - (IF StationsNear(world, t) = {} THEN 0
                         ELSE world.tiles[t].content.cargo_supply["Passengers"] \div 2) ]_vars

----------------------------------------------------------------------------
(* The calendar of the market: Economy::update applied to the economy of a  *)
(* loaded game.  EconomySave::to_economy (save.rs 462-468) builds it from   *)
(* Economy::new and restores inflation_rate, economic_state and month, so   *)
(* the month counter and the economic state of a long game meet the prices  *)
(* and the supply and demand of a new one.                                  *)

\* applications of Economy::update in a behaviour
MaxUpdates == 3

\* the month counters of the loaded games: shortly before the first and the
\* fifth inflation step and before the first and the second re-roll
StartMonths == {0, 28, 118, 148, 238}

EconomicStates == {"Boom", "Stable", "Recession"}

\* Economy::new with the saved month and economic state
LoadedEconomies ==
    { [EconomyNew EXCEPT !.month = m, !.economic_state = s]
      : m \in StartMonths, s \in EconomicStates }

InitCalendar ==
    /\ world \in GeneratedWorlds
    /\ economy \in { e \in LoadedEconomies :
                       \* Stable until the first re-roll at month 120
                       e.month < 120 => e.economic_state = "Stable" }
    /\ player = PlayerNew("Player", StartingMoney)
    /\ ui = UiNew
    /\ pc = "idle"
    /\ vi = 0
    /\ panicked = FALSE
    /\ savefile = NoFile
    /\ mutex = Unlocked
    /\ task = NoTasks
    /\ ncmd = 0

\* Economy::update
MarketUpdate ==
    /\ ncmd < MaxUpdates
    /\ economy' \in EconomyUpdate(economy, world)
    /\ ncmd' = ncmd + 1
    /\ UNCHANGED <<world, player, ui, pc, vi, panicked, savefile, mutex, task>>

NextCalendar == MarketUpdate

SpecCalendar == InitCalendar /\ [][NextCalendar]_vars

\* a step of Economy::update, and the ones that end on a multiple of 30
IsMarketUpdate == economy'.month = economy.month + 1

IsMonthEnd == IsMarketUpdate /\ economy'.month % 30 = 0

\* base price times (1 + inflation_rate)
InflationStep(price) == (price * (100 + economy.inflation_rate)) \div 100

\* the demand drift of the economic state the tick starts in
Drift(demand) ==
    CASE economy.economic_state = "Boom" -> (demand * 11) \div 10
      [] economy.economic_state = "Recession" -> (demand * 9) \div 10
      [] OTHER -> demand

\* the price stored after the update for a base price
Adjusted(base, c) ==
    (base * economy'.supply_demand[c].price_multiplier[1])
        \div economy'.supply_demand[c].price_multiplier[2]

\* the kinds whose demand the towns of the grid determine
TownDemanded ==
    IF TilesOfKind(world, "Town") = {} THEN {}
    ELSE {"Passengers", "Mail", "Goods", "Food"}

\* the economic state changes only on updates whose count is a multiple of
\* 120, and the inflation step enters the price on exactly the updates whose
\* count is a multiple of 30
StateAndInflationOnSchedule ==
    /\ economy'.month % 120 # 0 => economy'.economic_state = economy.economic_state
    /\ \A c \in CargoType :
          economy'.cargo_prices[c] =
              Adjusted(IF economy'.month % 30 = 0
                       THEN InflationStep(economy.cargo_prices[c])
                       ELSE economy.cargo_prices[c], c)

\* C30: the economic state changes only on market updates whose count is a
\* multiple of 120; the inflation step and the boom/recession demand drift
\* are applied on exactly the updates whose count is a multiple of 30, and
\* the demand stored after such an update in a boom or a recession is the
\* drifted demand
C30_MonthlyAndStateCalendar ==
    [][ IsMarketUpdate =>
          /\ StateAndInflationOnSchedule
          /\ \A c \in CargoType :
                /\ (IsMonthEnd /\ economy.economic_state # "Stable") =>
                      economy'.supply_demand[c].demand
                          = Drift(economy.supply_demand[c].demand)
                /\ (~IsMonthEnd /\ c \notin TownDemanded) =>
                      economy'.supply_demand[c].demand
                          = economy.supply_demand[c].demand ]_vars

\* the same with the drift looked for only in the kinds no town demands
C30_CalendarOfUndemandedKinds ==
    [][ IsMarketUpdate =>
          /\ StateAndInflationOnSchedule
          /\ \A c \in CargoType \ TownDemanded :
                economy'.supply_demand[c].demand
                    = IF IsMonthEnd THEN Drift(economy.supply_demand[c].demand)
                      ELSE economy.supply_demand[c].demand ]_vars

\* a month ended in a boom and the kinds no town demands show the drift
C30_DriftReached ==
    /\ economy.month = 150
    /\ TilesOfKind(world, "Town") # {}
    /\ economy.supply_demand["Coal"].demand = 1100

----------------------------------------------------------------------------
(* Ageing: the game of a player whose vehicle has lived for years.  A      *)
(* vehicle that was updated 365 k + d times has age 365 k + d, has lost 5  *)
(* points of reliability k times and was never serviced.  game_time, which *)
(* no vehicle reads, counts from 0 so that the bound on ticks applies.     *)

AgeTypes == {"Train", "SmallTruck", "Bus"}

\* the years and the days of the year the vehicle has lived
AgeYears == {0, 1, 17, 18}

AgeDays == {0, 180, 181, 363, 364}

\* the reliability of a vehicle of the given type after `years` decrements
AgedReliability(vehicle_type, years) ==
    SaturatingSub(get_vehicle_stats(vehicle_type)[2], 5 * years)

InitAge ==
    /\ world = MainWorld
    /\ economy = EconomyNew
    /\ \E t \in AgeTypes, years \in AgeYears, days \in AgeDays :
          player = [PlayerNew("Player", StartingMoney) EXCEPT !.vehicles =
                       << [VehicleNew(0, create_vehicle_from_type(t), Width - 2, 0)
                             EXCEPT !.age = 365 * years + days,
                                    !.reliability =
                                        AgedReliability(create_vehicle_from_type(t),
                                                        years)] >>]
    /\ ui = UiNew
    /\ pc = "idle"
    /\ vi = 0
    /\ panicked = FALSE
    /\ savefile = NoFile
    /\ mutex = Unlocked
    /\ task = NoTasks
    /\ ncmd = 0

NextAge ==
    \/ SaveSelect
    \/ SaveVehicleOrder
    \/ TickBegin
    \/ VehicleStep
    \/ TickEnd

SpecAge == InitAge /\ [][NextAge]_vars

\* C31: with breakdowns disabled no vehicle is ever Broken, whatever its
\* age, last_service and reliability; the reliability of a vehicle is at
\* most the one it was constructed with, it changes only in the vehicle's
\* own update, and there it falls by 5 (not below 0) when the new age is a
\* multiple of 365 and stays otherwise
C31_NeverBrokenReliabilityDecays ==
    /\ [](\A i \in 1 .. Len(player.vehicles) :
             /\ player.vehicles[i].state.tag # "Broken"
             /\ player.vehicles[i].reliability
                    <= get_vehicle_stats(player.vehicles[i].vehicle_type)[2])
    /\ [][ \A i \in 1 .. Len(player.vehicles) :
              LET v == player.vehicles[i]
                  u == player'.vehicles[i]
              IN IF IsVehicleStep /\ i = vi
                 THEN /\ u.age = v.age + 1
                      /\ u.reliability =
                            IF u.age % 365 = 0 THEN SaturatingSub(v.reliability, 5)
                            ELSE v.reliability
                 ELSE u.age = v.age /\ u.reliability = v.reliability ]_vars

\* a vehicle of age 365 that was not serviced for more than 180 ticks has
\* just lost 5 points of reliability and moves
C31_Witness ==
    /\ pc = "vehicles" /\ vi = 2
    /\ player.vehicles[1].age = 365
    /\ player.vehicles[1].age - player.vehicles[1].last_service > 180
    /\ player.vehicles[1].reliability
           = get_vehicle_stats(player.vehicles[1].vehicle_type)[2] - 5
    /\ player.vehicles[1].state.tag = "Moving"

----------------------------------------------------------------------------
(* The scenario of a road vehicle next to a town: a square world whose      *)
(* only grass tile carries the only town; the player builds a station on a  *)
(* tile next to it, buys a road vehicle there, sends it to the town tile    *)
(* (GoToLocation) and stops it, which leaves it Idle with route [town].     *)

\* the side of the square world
ScenarioSize == 5

ScenarioTown == <<2, 2>>

\* the generated world, its grid written out tile by tile
ScenarioWorld ==
    LET generated ==
            WorldNew(ScenarioSize, ScenarioSize,
                [c \in Coords(ScenarioSize, ScenarioSize) |->
                    IF c = ScenarioTown THEN "Grass" ELSE "Desert"],
                [c \in Coords(ScenarioSize, ScenarioSize) |-> 0],
                [i \in 1 .. TownAttempts |->
                    IF i = 1 THEN [x |-> ScenarioTown[1], y |-> ScenarioTown[2],
                                   population |-> 1000, growth_rate |-> 100]
                    ELSE [x |-> 0, y |-> 0, population |-> 500, growth_rate |-> 10]],
                [i \in 1 .. IndustryAttempts |->
                    [x |-> ScenarioTown[1], y |-> ScenarioTown[2],
                     industry_type |-> "CoalMine", production_rate |-> 50]])
    IN [generated EXCEPT !.tiles = [c \in DOMAIN @ |-> @[c]]]

ScenarioTypes == {"SmallTruck", "LargeTruck", "Bus"}

ScenarioStations == {"BuildBusStop", "BuildTrainStation"}

\* the commands of the scenario for a vehicle type, a tile and a station
ScenarioCommands(vehicle_type, pos, station) ==
    << <<[kind |-> "BuildAction", build_action |-> station], pos>>,
       <<[kind |-> "Select"], pos>>,
       <<[kind |-> "VehiclePurchase", vehicle_type |-> vehicle_type], pos>>,
       <<[kind |-> "Select"], pos>>,
       <<[kind |-> "VehicleOrder", order |-> "GoToLocation"], pos>>,
       <<[kind |-> "Select"], ScenarioTown>>,
       <<[kind |-> "VehicleOrder", order |-> "Stop"], ScenarioTown>> >>

ScenarioGame(vehicle_type, pos, station) ==
    AfterCommands(GameNew(ScenarioWorld),
                  ScenarioCommands(vehicle_type, pos, station),
                  Len(ScenarioCommands(vehicle_type, pos, station)))

InitScenario ==
    /\ \E t \in ScenarioTypes, pos \in { c \in Coords(ScenarioSize, ScenarioSize) : Near(c, ScenarioTown) },
          station \in ScenarioStations :
          /\ world = ScenarioGame(t, pos, station).world
          /\ economy = ScenarioGame(t, pos, station).economy
          /\ player = ScenarioGame(t, pos, station).player
          /\ ui = ScenarioGame(t, pos, station).ui
    /\ pc = "idle"
    /\ vi = 0
    /\ panicked = FALSE
    /\ savefile = NoFile
    /\ mutex = Unlocked
    /\ task = NoTasks
    /\ ncmd = 0

NextScenario ==
    \/ TickBegin
    \/ VehicleStep
    \/ TickEnd

SpecScenario == InitScenario /\ [][NextScenario]_vars

\* a road vehicle that is Idle on a tile edge-adjacent to the Town tile its
\* route names next
IdleNextToTownWaypoint(v) ==
    /\ v.vehicle_type.class = "Road"
    /\ v.state.tag = "Idle"
    /\ v.route # <<>>
    /\ ContentKind(world, v.route[v.route_index + 1][1],
                   v.route[v.route_index + 1][2]) = "Town"
    /\ Near(v.route[v.route_index + 1], <<v.x, v.y>>)

\* C32: a road vehicle that is Idle next to the Town tile its route names
\* next leaves Idle on its way to Loading: start_moving_to_next_station,
\* which its update calls, finds the path to the town tile and sets the
\* vehicle Moving or Loading, and the vehicle is not Idle with an unserved
\* waypoint after the update
C32_IdleNextToTownLoads ==
    [][ (IsVehicleStep /\ IdleNextToTownWaypoint(player.vehicles[vi])) =>
            player'.vehicles[vi].state.tag \in {"Moving", "Loading"} ]_vars

\* what happens instead: the update of such a vehicle leaves it as it is but
\* for its age, no other step changes it, and the town stays a town; so the
\* vehicle is Idle next to its waypoint in every later state
C32_TownWaypointKeepsIdle ==
    [][ \A i \in 1 .. Len(player.vehicles) :
           IdleNextToTownWaypoint(player.vehicles[i]) =>
               /\ player'.vehicles[i] =
                     [player.vehicles[i] EXCEPT
                        !.age = IF IsVehicleStep /\ i = vi THEN @ + 1 ELSE @]
               /\ ContentKind(world', ScenarioTown[1], ScenarioTown[2]) = "Town" ]_vars

\* the scenario after its last tick
C32_ScenarioReached ==
    /\ player.game_time = MaxTicks
    /\ pc = "idle"
    /\ Len(player.vehicles) = 1
    /\ IdleNextToTownWaypoint(player.vehicles[1])
    /\ <<player.vehicles[1].x, player.vehicles[1].y>> = <<3, 2>>
    /\ ContentKind(world, 3, 2) = "Station"
    /\ player.vehicles[1].route = <<ScenarioTown>>

----------------------------------------------------------------------------
(* A road vehicle under way: on the desert grid the player builds a bus     *)
(* stop, buys a road vehicle and gives it the route stop, stop.  The        *)
(* vehicle has then been updated a number of times (a hop takes 12 updates  *)
(* at speed 90 or 85); game_time, which no vehicle reads, counts from 0 so  *)
(* that the bound on ticks applies.                                         *)

HopTypes == {"SmallTruck", "Bus"}

\* the updates the vehicle has had
HopUpdates == {0, 11}

\* a vehicle after n calls of Vehicle::update in a world
RECURSIVE Updated(_, _, _)
Updated(v, w, n) ==
    IF n = 0 THEN v
    ELSE (CHOOSE r \in VehicleUpdate(Updated(v, w, n - 1), w) : TRUE).v

HopGame(vehicle_type, start, goal) ==
    AfterCommands(Built(GameNew(GridBase), goal :> "BuildBusStop",
                        GridWidth * GridHeight),
                  Trip(vehicle_type, start, goal),
                  Len(Trip(vehicle_type, start, goal)))

InitHop ==
    /\ \E t \in HopTypes, start \in Coords(GridWidth, GridHeight),
          goal \in Coords(GridWidth, GridHeight), n \in HopUpdates :
          /\ Len(HopGame(t, start, goal).player.vehicles) = 1
          /\ world = HopGame(t, start, goal).world
          /\ economy = HopGame(t, start, goal).economy
          /\ player = [HopGame(t, start, goal).player EXCEPT
                         !.vehicles[1] = Updated(@, HopGame(t, start, goal).world, n)]
          /\ ui = HopGame(t, start, goal).ui
    /\ pc = "idle"
    /\ vi = 0
    /\ panicked = FALSE
    /\ savefile = NoFile
    /\ mutex = Unlocked
    /\ task = NoTasks
    /\ ncmd = 0

NextHop ==
    \/ TickBegin
    \/ VehicleStep
    \/ TickEnd

SpecHop == InitHop /\ [][NextHop]_vars

\* C34: the `from` of a Moving vehicle is the tile the vehicle stands on,
\* also after the first hop of a path of several hops
C34_FromIsPosition ==
    \A i \in 1 .. Len(player.vehicles) :
        player.vehicles[i].state.tag = "Moving" =>
            player.vehicles[i].state.from
                = <<player.vehicles[i].x, player.vehicles[i].y>>

\* the same for the vehicles on the first hop of their path
C34_FromIsPositionOnFirstHop ==
    \A i \in 1 .. Len(player.vehicles) :
        (player.vehicles[i].state.tag = "Moving" /\ player.vehicles[i].path_index <= 1) =>
            player.vehicles[i].state.from
                = <<player.vehicles[i].x, player.vehicles[i].y>>

----------------------------------------------------------------------------
(* Deliveries and the owner's money: the vehicles of the unloading          *)
(* specification, with or without a route of two waypoints.  A vehicle      *)
(* that unloads next to a town makes a delivery in its first update and     *)
(* has total_deliveries > 0 on every later tick.                            *)

DeliveryRoutes == { <<>>, << <<Width - 2, 0>>, <<0, 0>> >> }

InitDelivery ==
    /\ world = MainWorld
    /\ economy = EconomyNew
    /\ \E t \in UnloadTypes, pos \in Coords(Width, Height), cargo \in UnloadCargos,
          route \in DeliveryRoutes :
          player = [PlayerNew("Player", StartingMoney) EXCEPT !.vehicles =
                       << [VehicleNew(0, create_vehicle_from_type(t), pos[1], pos[2])
                             EXCEPT !.state = StateOf("Unloading"),
                                    !.cargo = cargo,
                                    !.route = route] >>]
    /\ ui = UiNew
    /\ pc = "idle"
    /\ vi = 0
    /\ panicked = FALSE
    /\ savefile = NoFile
    /\ mutex = Unlocked
    /\ task = NoTasks
    /\ ncmd = 0

NextDelivery ==
    \/ TickBegin
    \/ VehicleStep
    \/ TickEnd

SpecDelivery == InitDelivery /\ [][NextDelivery]_vars

\* the update of vehicle vi made a delivery
Delivers == player'.vehicles[vi].total_deliveries > player.vehicles[vi].total_deliveries

\* the step that ends Player::update
IsTickEnd == pc = "vehicles" /\ pc' = "idle"

C38_NoCreditBeforeFirstDelivery ==
    [][ (IsVehicleStep => player'.vehicles[vi].total_deliveries = 0)
        => player'.money =
               IF IsTickEnd THEN player.money - RunningCosts(player.vehicles, 1)
               ELSE player.money ]_vars

\* what the code credits: calculate_delivery_profit of the updated vehicle,
\* on every update that leaves total_deliveries > 0
C38_CreditedOnEveryLaterUpdate ==
    [][ (IsVehicleStep /\ ~panicked' /\ player'.vehicles[vi].total_deliveries > 0)
        => player'.money
               = player.money + calculate_delivery_profit(player'.vehicles[vi]) ]_vars

\* a vehicle with a route that made its delivery on the first tick has been
\* credited on a later tick
C38_LaterCreditReached ==
    /\ pc = "vehicles" /\ vi = 2
    /\ player.game_time = 2
    /\ player.vehicles[1].total_deliveries = 1
    /\ calculate_delivery_profit(player.vehicles[1]) > 0

----------------------------------------------------------------------------
(* After a Stop order: the games of the road vehicle under way, with the    *)
(* route stop, stop or (the commands of the trip cut after the purchase)    *)
(* without a route, in which the player has then given the vehicle the      *)
(* order Stop.  Only ticks follow.                                          *)

\* the commands of the trip that were given: the purchase and the select, or
\* all of them
StopTripLengths == {2, 6}

StopOrdered(g) ==
    process_input_event([g EXCEPT !.ui.selected_vehicle_id = Some(0)],
                        [kind |-> "VehicleOrder", order |-> "Stop"],
                        <<g.ui.cursor_x, g.ui.cursor_y>>)

StopGame(vehicle_type, start, goal, k, n) ==
    LET g == AfterCommands(Built(GameNew(GridBase), goal :> "BuildBusStop",
                                 GridWidth * GridHeight),
                           Trip(vehicle_type, start, goal), k)
    IN StopOrdered([g EXCEPT !.player.vehicles[1] = Updated(@, g.world, n)])

InitStop ==
    /\ \E t \in HopTypes, start \in Coords(GridWidth, GridHeight),
          goal \in Coords(GridWidth, GridHeight), k \in StopTripLengths,
          n \in HopUpdates :
          /\ Len(HopGame(t, start, goal).player.vehicles) = 1
          /\ world = StopGame(t, start, goal, k, n).world
          /\ economy = StopGame(t, start, goal, k, n).economy
          /\ player = StopGame(t, start, goal, k, n).player
          /\ ui = StopGame(t, start, goal, k, n).ui
    /\ pc = "idle"
    /\ vi = 0
    /\ panicked = FALSE
    /\ savefile = NoFile
    /\ mutex = Unlocked
    /\ task = NoTasks
    /\ ncmd = 0

NextStop ==
    \/ TickBegin
    \/ VehicleStep
    \/ TickEnd

SpecStop == InitStop /\ [][NextStop]_vars

\* C40: a vehicle that was given the order Stop is Idle, and on the ticks
\* that follow without another order it stays Idle on its tile, with or
\* without a route
C40_StoppedStaysIdle ==
    /\ [](\A i \in 1 .. Len(player.vehicles) :
             player.vehicles[i].state.tag = "Idle")
    /\ [][ \A i \in 1 .. Len(player.vehicles) :
              /\ player'.vehicles[i].x = player.vehicles[i].x
              /\ player'.vehicles[i].y = player.vehicles[i].y ]_vars

\* the part of C40 that holds: a stopped vehicle without a route stays Idle
\* on its tile
C40_StoppedWithoutRouteStaysIdle ==
    /\ [](\A i \in 1 .. Len(player.vehicles) :
             player.vehicles[i].route = <<>> =>
                 player.vehicles[i].state.tag = "Idle")
    /\ [][ \A i \in 1 .. Len(player.vehicles) :
              player.vehicles[i].route = <<>> =>
                  /\ player'.vehicles[i].x = player.vehicles[i].x
                  /\ player'.vehicles[i].y = player.vehicles[i].y ]_vars

\* the order Stop has taken a vehicle out of a hop, and the vehicle is Idle
\* with its route before the first tick
C40_StoppedUnderWay ==
    /\ player.game_time = 0
    /\ player.vehicles[1].age = 11
    /\ player.vehicles[1].state.tag = "Idle"
    /\ player.vehicles[1].current_path # <<>>
    /\ Len(player.vehicles[1].route) = 2

====
